---------------------------- MODULE Spec2Model ----------------------------
(***************************************************************************)
(* Model of the appointment scheduler: its calendar tools                 *)
(* (calendar_tools.py), its date/time helpers (utils.py) and its agents     *)
(* (agent.py, agent_demo.py, agent_simple.py).                             *)
(*                                                                         *)
(*   Spec          book_appointment on the shared calendar                 *)
(*   SpecAvail     check_availability: the sweep for free slots            *)
(*   SpecSlots     get_time_slot_suggestions and its conflict test         *)
(*   SpecValidate  validate_datetime_input                                 *)
(*   SpecExtract   extract_datetime_info: date, time, duration, combined   *)
(*   SpecWeekday   _parse_next_weekday and _parse_this_weekday             *)
(*   SpecMonthDay  _parse_month_day and _parse_day_month                   *)
(*   SpecReuse     get_time_slot_suggestions called again on one list      *)
(*   SpecInTurn    book_appointment and cancel_appointment one at a time   *)
(*   SpecRace      two book_appointment calls running at once              *)
(*   SpecCancel    cancel_appointment on a calendar that may fail          *)
(*   SpecTools     the tools and CalendarManager's methods, connected or   *)
(*                 not                                                     *)
(*   SpecAgent     TailorTalkAgent.process_message and its history         *)
(*                                                                         *)
(* Time.  A datetime is the number of minutes since 00:00 of day 0, in the *)
(* single fixed zone the program runs in; day 0 is yesterday, day Today is *)
(* today.  A date string is modelled by the day it denotes and a time      *)
(* string by the minute of the day it denotes; a string that strptime or   *)
(* fromisoformat rejects is modelled by Malformed.                         *)
(***************************************************************************)
EXTENDS Integers, Sequences, FiniteSets, TLC

VARIABLES
    service,    \* calendar_manager.service: TRUE when connected, FALSE for None
    events,     \* the events held by the calendar behind calendar_manager
    arg,        \* the arguments handed to the pure helper under check, or the
                \* object a caller holds across calls (its list, its agent)
    call        \* the last call made: its arguments, what it did, its return;
                \* under SpecRace the two calls in flight and where they stand

vars == <<service, events, arg, call>>

---------------------------------------------------------------------------
(* Bounds of the model *)

\* Most events the calendar holds before the first call.
MaxPre == 2

\* Most events the calendar ever holds: no booking is tried beyond it.
MaxEvents == 3

---------------------------------------------------------------------------
(* Dates, times and their conversions *)

\* What a string that does not parse stands for (strptime raises ValueError).
Malformed == 0 - 1

MinutesPerDay == 24 * 60

\* datetime.now().date(): day 0 is yesterday.
Today == 1

\* datetime.strptime(date_str + " " + start_time_str, "%Y-%m-%d %H:%M")
Combine(date, minuteOfDay) == date * MinutesPerDay + minuteOfDay

\* dt.strftime('%H:%M'): the date is dropped, hour and minute are kept.
StrfHM(dt) == <<(dt % MinutesPerDay) \div 60, dt % 60>>

\* The minute of the day an "HH:MM" string written by StrfHM denotes.
HMMinutes(hm) == hm[1] * 60 + hm[2]

NoCall == [op |-> "none"]
NoArg == [fn |-> "none"]

---------------------------------------------------------------------------
(* Sequences *)

RECURSIVE SortByStart(_)
\* orderBy='startTime': the events of a set in ascending order of start
\* (ties by id).
SortByStart(S) ==
    IF S = {} THEN <<>>
    ELSE LET first == CHOOSE e \in S :
                         \A f \in S : \/ e.start < f.start
                                      \/ e.start = f.start /\ e.id <= f.id
         IN <<first>> \o SortByStart(S \ {first})

SeqToSet(s) == {s[i] : i \in 1..Len(s)}

---------------------------------------------------------------------------
(* CalendarManager *)

\* The id the calendar gives a new event: the least one not in use.
NewId(cal) == CHOOSE n \in 0..Cardinality(cal) : \A e \in cal : e.id # n

ListEventsStartingInside(cal, timeMin, timeMax) ==
    SortByStart({e \in cal : e.start >= timeMin /\ e.start < timeMax})

\* events().list(timeMin, timeMax, singleEvents, orderBy='startTime'):
\* the events that end after timeMin and start before timeMax.
ListEvents(cal, timeMin, timeMax) ==
    SortByStart({e \in cal : e.end > timeMin /\ e.start < timeMax})

get_events_unguarded(svc, cal, start_time, end_time, apiOk) ==
    IF ~apiOk THEN <<>>
    ELSE ListEvents(cal, start_time, end_time)

\* CalendarManager.get_events: [] when not connected, [] when the calendar
\* read raises (apiOk = FALSE), else the formatted events of the time range.
get_events(svc, cal, start_time, end_time, apiOk) ==
    IF ~svc THEN <<>>
    ELSE IF ~apiOk THEN <<>>
    ELSE ListEvents(cal, start_time, end_time)

\* CalendarManager.create_event: the calendar after the call and the value
\* returned; None (made = FALSE) when not connected or when the insert raises.
create_event(svc, cal, summary, start_time, end_time, apiOk) ==
    IF ~svc \/ ~apiOk
    THEN [cal |-> cal, made |-> FALSE]
    ELSE [cal |-> cal \cup {[id |-> NewId(cal), summary |-> summary,
                             start |-> start_time, end |-> end_time]},
          made |-> TRUE]

---------------------------------------------------------------------------
(* book_appointment *)

\* The arguments of the bookings tried: one title; a date string that does
\* not parse, yesterday, today; a time string that does not parse, "03:00",
\* "09:00"; 60 and 90 minutes.
Summaries == {"sync"}
DateStrs == {Malformed, 0, Today}
TimeStrs == {Malformed, 180, 540}
Durations == {60, 90}

\* The conflict line of one existing event: summary, start and end.
ConflictLine(e) == [summary |-> e.summary, start |-> e.start, end |-> e.end]

\* book_appointment: the calendar after the call and the record of the call.
\* readOk, writeOk: whether the calendar read and the insert go through.
book_appointment(svc, cal, summary, date_str, start_time_str, duration_minutes, readOk, writeOk) ==
    LET base == [op |-> "book_appointment", summary |-> summary,
                 date_str |-> date_str, start_time_str |-> start_time_str,
                 duration_minutes |-> duration_minutes, before |-> cal,
                 lookup |-> "none", conflicts |-> <<>>, created |-> FALSE,
                 ret |-> "not_connected"]
    IN
    IF ~svc THEN [cal |-> cal, call |-> base]
    ELSE IF date_str = Malformed \/ start_time_str = Malformed
    THEN [cal |-> cal, call |-> [base EXCEPT !.ret = "invalid_format"]]
    ELSE
    LET start_datetime == Combine(date_str, start_time_str)
        end_datetime == start_datetime + duration_minutes
        existing_events ==
            get_events(svc, cal, start_datetime, end_datetime, readOk)
        looked == [base EXCEPT !.lookup = IF readOk THEN "ok" ELSE "failed"]
    IN
    IF existing_events # <<>>
    THEN [cal |-> cal,
          call |-> [looked EXCEPT
                      !.conflicts = [i \in 1..Len(existing_events) |->
                                        ConflictLine(existing_events[i])],
                      !.ret = "conflict"]]
    ELSE
    LET created_event == create_event(svc, cal, summary, start_datetime,
                                      end_datetime, writeOk)
    IN
    IF created_event.made
    THEN [cal |-> created_event.cal,
          call |-> [looked EXCEPT !.created = TRUE, !.ret = "booked"]]
    ELSE [cal |-> cal, call |-> [looked EXCEPT !.ret = "create_failed"]]

BookAppointment ==
    \E summary \in Summaries, date_str \in DateStrs,
       start_time_str \in TimeStrs, duration_minutes \in Durations,
       readOk \in BOOLEAN, writeOk \in BOOLEAN :
        /\ Cardinality(events) < MaxEvents
        /\ LET r == book_appointment(service, events, summary, date_str,
                                     start_time_str, duration_minutes,
                                     readOk, writeOk)
           IN /\ events' = r.cal
              /\ call' = r.call
        /\ UNCHANGED <<service, arg>>

---------------------------------------------------------------------------
(* The calendar the tools start from *)

\* Start and end of the events other clients may have put in the calendar:
\* today 09:00, 10:00, 11:30.
PrePoints == {Combine(Today, 540), Combine(Today, 600), Combine(Today, 690)}

Intervals(points) == {iv \in points \X points : iv[1] < iv[2]}

\* The calendar that holds one event per interval of ivs.
CalendarOf(ivs) ==
    {[id |-> Cardinality({jv \in ivs : \/ jv[1] < iv[1]
                                       \/ jv[1] = iv[1] /\ jv[2] < iv[2]}),
      summary |-> "external", start |-> iv[1], end |-> iv[2]] : iv \in ivs}

Init ==
    /\ service \in BOOLEAN
    /\ \E ivs \in SUBSET Intervals(PrePoints) :
          /\ Cardinality(ivs) <= MaxPre
          /\ events = CalendarOf(ivs)
    /\ arg = NoArg
    /\ call = NoCall

Next == BookAppointment

Spec == Init /\ [][Next]_vars

---------------------------------------------------------------------------
(* book_appointment: claims C1, C2, C9 *)

\* Whether the call recorded is a booking that got past the connection check
\* with a date and a time that parse.
BookingParsed ==
    /\ call.op = "book_appointment"
    /\ call.ret \notin {"not_connected", "invalid_format"}

\* Start and end of the interval the recorded booking proposes.
ProposedStart == Combine(call.date_str, call.start_time_str)
ProposedEnd == ProposedStart + call.duration_minutes

\* The events of the calendar, as it was when the booking was called, that
\* overlap the proposed interval.
Overlapping ==
    {e \in call.before : ProposedStart < e.end /\ ProposedEnd > e.start}

\* C1: whenever at least one event of the calendar overlaps the proposed
\* interval [start, start + duration_minutes), book_appointment creates no
\* event, and the conflict message it returns names every overlapping event.
C1_OverlapBlocksAndNamesAll ==
    (BookingParsed /\ Overlapping # {}) =>
        /\ ~call.created
        /\ events = call.before
        /\ call.ret = "conflict" =>
              SeqToSet(call.conflicts) = {ConflictLine(e) : e \in Overlapping}

\* C2: book_appointment creates an event only after a lookup of the existing
\* events that succeeded and found no overlapping event; a lookup that
\* failed never leads to an event being written.
C2_CreatesOnlyAfterGoodLookup ==
    (call.op = "book_appointment" /\ call.created) =>
        /\ call.lookup = "ok"
        /\ Overlapping = {}

\* 06:00 and 22:00 as minutes of the day: the business-hour bounds.
EarliestStart == 6 * 60
LatestStart == 22 * 60

\* C9: a booking whose date or time string is malformed, whose date is in
\* the past, or whose start is outside 06:00 to 22:00 is rejected and
\* creates no event.
C9_InvalidBookingRejected ==
    (/\ call.op = "book_appointment"
     /\ \/ call.date_str = Malformed
        \/ call.start_time_str = Malformed
        \/ call.date_str < Today
        \/ call.start_time_str < EarliestStart
        \/ call.start_time_str > LatestStart)
    => (~call.created /\ events = call.before)

---------------------------------------------------------------------------
(* check_availability *)

\* Most events in the calendar check_availability reads.
MaxBusy == 2

Max(a, b) == IF a >= b THEN a ELSE b

\* "if current_time < event_start: available_slots.append(...)": the slot
\* before an event, as the pair of HH:MM strings it is written with.
GapBefore(current_time, event_start) ==
    IF current_time < event_start
    THEN << <<StrfHM(current_time), StrfHM(event_start)>> >>
    ELSE <<>>

AdvanceToEnd(current_time, event_end) == event_end

\* "current_time = max(current_time, event_end)"
Advance(current_time, event_end) == Max(current_time, event_end)

TailGapNever(current_time, end_time) == <<>>

\* "if current_time < end_time: available_slots.append(...)": the slot after
\* the last event.
TailGap(current_time, end_time) ==
    IF current_time < end_time
    THEN << <<StrfHM(current_time), StrfHM(end_time)>> >>
    ELSE <<>>

RECURSIVE Sweep(_, _, _, _, _)
\* The loop over the events and the step after it: the slots appended from
\* event i on, with the cursor at current_time.
Sweep(evs, i, current_time, end_time, available_slots) ==
    IF i > Len(evs)
    THEN available_slots \o TailGap(current_time, end_time)
    ELSE Sweep(evs, i + 1, Advance(current_time, evs[i].end), end_time,
               available_slots \o GapBefore(current_time, evs[i].start))

\* check_availability: the record of the call.  readOk: whether the calendar
\* read goes through.
check_availability(svc, cal, date_str, start_hour, end_hour, readOk) ==
    LET base == [op |-> "check_availability", date_str |-> date_str,
                 start_hour |-> start_hour, end_hour |-> end_hour,
                 busy |-> <<>>, available_slots |-> <<>>,
                 ret |-> "not_connected"]
    IN
    IF ~svc THEN base
    ELSE IF date_str = Malformed \/ start_hour \notin 0..23
            \/ end_hour \notin 0..23
    THEN [base EXCEPT !.ret = "error"]
    ELSE
    LET start_time == Combine(date_str, start_hour * 60)
        end_time == Combine(date_str, end_hour * 60)
        evs == get_events(svc, cal, start_time, end_time, readOk)
    IN
    IF evs = <<>> THEN [base EXCEPT !.ret = "completely_free"]
    ELSE
    LET available_slots == Sweep(evs, 1, start_time, end_time, <<>>)
    IN [base EXCEPT !.busy = evs, !.available_slots = available_slots,
                    !.ret = IF available_slots # <<>> THEN "slots"
                            ELSE "no_availability"]

\* start_hour and end_hour of the windows asked for: 09:00, 13:00, 17:00
\* and the hour 24, which datetime.replace rejects.
WindowHours == {9, 13, 17, 24}

\* The windows asked for are those with start_hour before end_hour.
CheckAvailability ==
    \E date_str \in {Malformed, Today}, start_hour \in WindowHours,
       end_hour \in WindowHours, readOk \in BOOLEAN :
        /\ start_hour < end_hour
        /\ call' = check_availability(service, events, date_str, start_hour,
                                      end_hour, readOk)
        /\ UNCHANGED <<service, events, arg>>

\* Start and end of the events in the calendar check_availability reads:
\* today 08:00, 09:00, 10:00, 11:30, 13:00, 17:00, 18:00.
BusyPoints ==
    {Combine(Today, m) : m \in {480, 540, 600, 690, 780, 1020, 1080}}

InitAvail ==
    /\ service \in BOOLEAN
    /\ \E ivs \in SUBSET Intervals(BusyPoints) :
          /\ Cardinality(ivs) <= MaxBusy
          /\ events = CalendarOf(ivs)
    /\ arg = NoArg
    /\ call = NoCall

NextAvail == CheckAvailability

SpecAvail == InitAvail /\ [][NextAvail]_vars

---------------------------------------------------------------------------
(* check_availability: claims C4, C5 *)

\* Whether the call recorded is a check_availability that reported on a
\* window.
Swept ==
    /\ call.op = "check_availability"
    /\ call.ret \in {"completely_free", "slots", "no_availability"}

\* The window of the recorded call, in minutes of its day.
WindowStart == call.start_hour * 60
WindowEnd == call.end_hour * 60

\* The free gaps the recorded call reports, in minutes of the day: the whole
\* window for "completely free", else the slots listed.
Gaps ==
    IF call.ret = "completely_free" THEN << <<WindowStart, WindowEnd>> >>
    ELSE [i \in 1..Len(call.available_slots) |->
             <<HMMinutes(call.available_slots[i][1]),
               HMMinutes(call.available_slots[i][2])>>]

\* The busy intervals the sweep was given, in minutes of the window's day
\* (negative before that day, above 1440 after it).
Busy ==
    [i \in 1..Len(call.busy) |->
        <<call.busy[i].start - Combine(call.date_str, 0),
          call.busy[i].end - Combine(call.date_str, 0)>>]

\* Every event starts and ends on a multiple of 30 minutes, so an instant per
\* half hour of the day, and of the hours next to it, stands for all instants.
Instants == {30 * k : k \in 0 - 4 .. 52}

Covering(ivs, t) == {i \in 1..Len(ivs) : ivs[i][1] <= t /\ t < ivs[i][2]}

BusyDisjointInside ==
    /\ \A i \in 1..Len(Busy) :
          WindowStart <= Busy[i][1] /\ Busy[i][2] <= WindowEnd
    /\ \A i, j \in 1..Len(Busy) :
          i < j => Busy[i][2] <= Busy[j][1]

\* C4: for a window and busy intervals inside it that do not overlap, sorted
\* by start, the free gaps reported and the busy intervals tile the window:
\* every instant of the window lies in exactly one of them and no gap
\* reaches outside the window; with no busy interval the one gap reported is
\* the whole window.
C4_GapsAndBusyTileWindow ==
    (Swept /\ BusyDisjointInside) =>
        /\ \A t \in Instants :
              Cardinality(Covering(Gaps, t)) + Cardinality(Covering(Busy, t))
                 = IF WindowStart <= t /\ t < WindowEnd THEN 1 ELSE 0
        /\ Busy = <<>> => Gaps = << <<WindowStart, WindowEnd>> >>

\* C4's case: a sweep over two busy intervals inside the window that do not
\* touch, which reports the gap before them and the gap between them.
C4_Witness ==
    /\ Swept /\ BusyDisjointInside
    /\ Len(Busy) = 2
    /\ WindowStart < Busy[1][1] /\ Busy[1][2] < Busy[2][1]
    /\ Len(Gaps) = 2

\* C5: for busy intervals sorted by start that may overlap or touch, every
\* gap reported is non-empty, lies inside the window and meets no busy
\* interval, and every instant of the window that no busy interval covers
\* lies in a gap; busy 9:00-10:00 and 10:00-11:30 over 9:00-17:00 gives the
\* one gap 11:30-17:00.
C5_GapsAreTheFreeTime ==
    Swept =>
        /\ \A i \in 1..Len(Gaps) :
              /\ Gaps[i][1] < Gaps[i][2]
              /\ WindowStart <= Gaps[i][1] /\ Gaps[i][2] <= WindowEnd
        /\ \A t \in Instants :
              Covering(Gaps, t) # {} <=>
                 /\ WindowStart <= t /\ t < WindowEnd
                 /\ Covering(Busy, t) = {}
        /\ (/\ WindowStart = 540 /\ WindowEnd = 1020
            /\ Busy = << <<540, 600>>, <<600, 690>> >>)
           => call.available_slots = << << <<11, 30>>, <<17, 0>> >> >>

\* C5's case: the sweep over busy 9:00-10:00 and 10:00-11:30 in the window
\* 9:00-17:00.
C5_Witness ==
    /\ Swept
    /\ WindowStart = 540 /\ WindowEnd = 1020
    /\ Busy = << <<540, 600>>, <<600, 690>> >>
    /\ Len(Gaps) = 1

\* A sweep over two busy intervals of which the first contains the second.
C5_WitnessNested ==
    /\ Swept
    /\ Len(Busy) = 2
    /\ Busy[2][2] < Busy[1][2]

---------------------------------------------------------------------------
(* get_time_slot_suggestions *)

\* Most events in the list handed to get_time_slot_suggestions.
MaxSupplied == 2

business_start == 9
business_end == 17

\* The default suggestions: "09:00", "10:00", "14:00", "15:00", "16:00".
DefaultSuggestions == << <<9, 0>>, <<10, 0>>, <<14, 0>>, <<15, 0>>, <<16, 0>> >>

HasConflictClosed(slot_start, slot_end, event_start, event_end) ==
    slot_start <= event_end /\ slot_end >= event_start

\* "if (slot_start < event_end and slot_end > event_start)"
HasConflict(slot_start, slot_end, event_start, event_end) ==
    slot_start < event_end /\ slot_end > event_start

RECURSIVE ScanEvents(_, _, _, _)
\* The loop over existing_events for one slot, from event i on: "raise" when
\* fromisoformat rejects the event's start or end, "conflict" at the first
\* event in conflict (break), "free" when the list is exhausted.
ScanEvents(existing_events, i, slot_start, slot_end) ==
    IF i > Len(existing_events) THEN "free"
    ELSE IF \/ existing_events[i].start = Malformed
            \/ existing_events[i].end = Malformed
    THEN "raise"
    ELSE IF HasConflict(slot_start, slot_end, existing_events[i].start,
                        existing_events[i].end)
    THEN "conflict"
    ELSE ScanEvents(existing_events, i + 1, slot_start, slot_end)

RECURSIVE HourLoop(_, _, _, _, _)
\* "for hour in range(business_start, business_end)" from hour on, with the
\* suggestions appended so far; raised when an event does not parse.
HourLoop(existing_events, date_obj, duration_minutes, hour, suggestions) ==
    IF hour >= business_end
    THEN [raised |-> FALSE, suggestions |-> suggestions]
    ELSE
    LET slot_start == Combine(date_obj, hour * 60)
        slot_end == slot_start + duration_minutes
        scan == ScanEvents(existing_events, 1, slot_start, slot_end)
    IN
    IF scan = "raise" THEN [raised |-> TRUE, suggestions |-> suggestions]
    ELSE HourLoop(existing_events, date_obj, duration_minutes, hour + 1,
                  IF scan = "free" THEN Append(suggestions, <<hour, 0>>)
                  ELSE suggestions)

\* s[:n]
Take(s, n) == SubSeq(s, 1, IF Len(s) < n THEN Len(s) ELSE n)

SuggestionsKeepPartial(existing_events, preferred_date, duration_minutes) ==
    IF preferred_date = Malformed THEN [raised |-> FALSE, ret |-> <<>>]
    ELSE [raised |-> FALSE,
          ret |-> Take(HourLoop(existing_events, preferred_date,
                                duration_minutes, business_start,
                                <<>>).suggestions, 5)]

SuggestionsTopFour(existing_events, preferred_date, duration_minutes) ==
    IF preferred_date = Malformed
    THEN [raised |-> FALSE, ret |-> DefaultSuggestions]
    ELSE LET r == HourLoop(existing_events, preferred_date, duration_minutes,
                           business_start, <<>>)
         IN [raised |-> FALSE,
             ret |-> IF r.raised THEN DefaultSuggestions
                     ELSE Take(r.suggestions, 4)]

\* get_time_slot_suggestions: the value returned, and whether an exception
\* leaves the function (the except clause catches every Exception).
get_time_slot_suggestions(existing_events, preferred_date, duration_minutes) ==
    IF preferred_date = Malformed
    THEN [raised |-> FALSE, ret |-> DefaultSuggestions]
    ELSE LET r == HourLoop(existing_events, preferred_date, duration_minutes,
                           business_start, <<>>)
         IN [raised |-> FALSE,
             ret |-> IF r.raised THEN DefaultSuggestions
                     ELSE Take(r.suggestions, 5)]

\* The start and end strings of the supplied events: today 09:00, 10:00,
\* 13:00, 17:00, or a string fromisoformat rejects.
SuppliedPoints ==
    {Combine(Today, 540), Combine(Today, 600), Combine(Today, 780),
     Combine(Today, 1020)}

SuppliedEvents ==
    {[start |-> iv[1], end |-> iv[2]] : iv \in Intervals(SuppliedPoints)}
    \cup {[start |-> Malformed, end |-> Combine(Today, 600)],
          [start |-> Combine(Today, 540), end |-> Malformed]}

RECURSIVE SeqsUpTo(_, _)
\* The sequences over S of length at most n.
SeqsUpTo(S, n) ==
    IF n = 0 THEN {<<>>}
    ELSE LET shorter == SeqsUpTo(S, n - 1)
         IN shorter \cup {Append(q, x) : q \in shorter, x \in S}

SuggestionArgs ==
    [fn : {"get_time_slot_suggestions"},
     existing_events : SeqsUpTo(SuppliedEvents, MaxSupplied),
     preferred_date : {Malformed, Today},
     duration_minutes : {30, 60, 120}]

\* The instants the conflict test is tried on: 9:00, 9:59, 10:00, 10:01,
\* 11:00.
TestPoints == {540, 599, 600, 601, 660}

ConflictArgs ==
    [fn : {"conflict"}, a : Intervals(TestPoints), b : Intervals(TestPoints)]

GetTimeSlotSuggestions ==
    /\ arg.fn = "get_time_slot_suggestions"
    /\ call' = [op |-> "get_time_slot_suggestions"]
               @@ get_time_slot_suggestions(arg.existing_events,
                                            arg.preferred_date,
                                            arg.duration_minutes)
    /\ UNCHANGED <<service, events, arg>>

\* The conflict test of the inner loop on two intervals, each in the role of
\* the slot and in the role of the event.
ConflictTest ==
    /\ arg.fn = "conflict"
    /\ call' = [op |-> "conflict",
                ab |-> HasConflict(arg.a[1], arg.a[2], arg.b[1], arg.b[2]),
                ba |-> HasConflict(arg.b[1], arg.b[2], arg.a[1], arg.a[2])]
    /\ UNCHANGED <<service, events, arg>>

InitSlots ==
    /\ service = FALSE
    /\ events = {}
    /\ arg \in SuggestionArgs \cup ConflictArgs
    /\ call = NoCall

NextSlots == GetTimeSlotSuggestions \/ ConflictTest

SpecSlots == InitSlots /\ [][NextSlots]_vars

---------------------------------------------------------------------------
(* get_time_slot_suggestions: claims C3, C6, C7 *)

\* C3: two intervals conflict exactly when they share an instant, which for
\* [start, end) against an interval is start < interval.end and
\* end > interval.start; the test gives the same answer with the two
\* intervals exchanged; [9:00,10:00) against [10:00,11:00) is no conflict
\* and against [9:59,10:01) is a conflict.
C3_HalfOpenSymmetric ==
    call.op = "conflict" =>
        /\ call.ab = (arg.a[1] < arg.b[2] /\ arg.a[2] > arg.b[1])
        /\ call.ab = (\E t \in 540..660 : /\ arg.a[1] <= t /\ t < arg.a[2]
                                          /\ arg.b[1] <= t /\ t < arg.b[2])
        /\ call.ab = call.ba
        /\ (arg.a = <<540, 600>> /\ arg.b = <<600, 660>>) => ~call.ab
        /\ (arg.a = <<600, 660>> /\ arg.b = <<540, 600>>) => ~call.ab
        /\ (arg.a = <<540, 600>> /\ arg.b = <<599, 601>>) => call.ab
        /\ (arg.a = <<599, 601>> /\ arg.b = <<540, 600>>) => call.ab

\* C3's case: the test has been made on [9:00,10:00) and [10:00,11:00),
\* which touch at 10:00.
C3_Witness ==
    /\ call.op = "conflict"
    /\ arg.a = <<540, 600>> /\ arg.b = <<600, 660>>
    /\ ~call.ab /\ ~call.ba

\* Whether every supplied event has a start and an end that parse.
AllParse(evs) ==
    \A i \in 1..Len(evs) : evs[i].start # Malformed /\ evs[i].end # Malformed

\* Whether the slot [h:00, h:00 + duration_minutes) of the preferred date
\* overlaps event e, which parses.
SlotOverlaps(h, e) ==
    /\ Combine(arg.preferred_date, h * 60) < e.end
    /\ Combine(arg.preferred_date, h * 60) + arg.duration_minutes > e.start

\* The hours of 9..16 whose slot overlaps no supplied event.
FreeHours ==
    {h \in 9..16 : \A i \in 1..Len(arg.existing_events) :
                      ~SlotOverlaps(h, arg.existing_events[i])}

\* Whether s lists, in ascending order, the least elements of H: all of
\* them when H has at most n, else the n least.
IsFirstAscending(s, H, n) ==
    /\ Len(s) = (IF Cardinality(H) < n THEN Cardinality(H) ELSE n)
    /\ \A i \in 1..Len(s) :
          /\ s[i][2] = 0
          /\ s[i][1] \in H
          /\ Cardinality({h \in H : h < s[i][1]}) = i - 1

\* C6: with a date that parses (and events that parse) the suggestions are
\* the first 5, in ascending order, of the hours 9..16 whose slot
\* [h:00, h:00 + duration_minutes) overlaps no supplied event; with no event
\* and duration 60 they are 09:00, 10:00, 11:00, 12:00, 13:00.
C6_FirstFiveFreeHours ==
    (/\ call.op = "get_time_slot_suggestions"
     /\ arg.preferred_date # Malformed
     /\ AllParse(arg.existing_events))
    => /\ ~call.raised
       /\ IsFirstAscending(call.ret, FreeHours, 5)
       /\ (arg.existing_events = <<>> /\ arg.duration_minutes = 60)
          => call.ret = << <<9, 0>>, <<10, 0>>, <<11, 0>>, <<12, 0>>,
                           <<13, 0>> >>

\* C6's case: suggestions computed around a supplied event, with more than 5
\* hours free, so that the list is cut to 5.
C6_Witness ==
    /\ call.op = "get_time_slot_suggestions"
    /\ arg.preferred_date # Malformed
    /\ AllParse(arg.existing_events)
    /\ arg.existing_events # <<>>
    /\ Cardinality(FreeHours) > 5
    /\ 9 \notin FreeHours
    /\ Len(call.ret) = 5

\* A computed list shorter than 5.
C6_WitnessShort ==
    /\ call.op = "get_time_slot_suggestions"
    /\ arg.preferred_date # Malformed
    /\ AllParse(arg.existing_events)
    /\ Len(call.ret) \in 1..4

\* Whether the computation fails: the date does not parse, or the scan for
\* some hour reaches an event that does not parse, which it does when no
\* event before that one conflicts with the hour's slot.
ComputationFails ==
    \/ arg.preferred_date = Malformed
    \/ \E h \in 9..16, i \in 1..Len(arg.existing_events) :
          /\ \/ arg.existing_events[i].start = Malformed
             \/ arg.existing_events[i].end = Malformed
          /\ \A j \in 1..(i - 1) :
                /\ arg.existing_events[j].start # Malformed
                /\ arg.existing_events[j].end # Malformed
                /\ ~SlotOverlaps(h, arg.existing_events[j])

\* C7: get_time_slot_suggestions never lets an error out, and when the
\* computation fails (a date that does not parse, an event whose start or
\* end does not parse) it returns exactly 09:00, 10:00, 14:00, 15:00, 16:00,
\* whatever it had computed.
C7_FallbackOnFailure ==
    call.op = "get_time_slot_suggestions" =>
        /\ ~call.raised
        /\ ComputationFails => call.ret = DefaultSuggestions

\* C7's case: the date parses, the first event parses and blocks 9:00, and
\* the scan for a later hour fails on the second event.
C7_Witness ==
    /\ call.op = "get_time_slot_suggestions"
    /\ arg.preferred_date # Malformed
    /\ Len(arg.existing_events) = 2
    /\ AllParse(<<arg.existing_events[1]>>)
    /\ SlotOverlaps(9, arg.existing_events[1])
    /\ ~AllParse(arg.existing_events)
    /\ ComputationFails
    /\ call.ret = DefaultSuggestions

\* The fallback after a date that does not parse.
C7_WitnessDate ==
    /\ call.op = "get_time_slot_suggestions"
    /\ arg.preferred_date = Malformed
    /\ call.ret = DefaultSuggestions

---------------------------------------------------------------------------
(* validate_datetime_input *)

\* validate_datetime_input: (is_valid, error_message); the message is
\* modelled by its kind and, for a format error, by the string strptime
\* rejected.
validate_datetime_input(date_str, time_str) ==
    IF date_str = Malformed
    THEN [valid |-> FALSE, error |-> "invalid_format", field |-> "date"]
    ELSE IF date_str < Today
    THEN [valid |-> FALSE, error |-> "past", field |-> "date"]
    ELSE IF time_str = Malformed
    THEN [valid |-> FALSE, error |-> "invalid_format", field |-> "time"]
    ELSE IF time_str \div 60 < 6 \/ time_str \div 60 > 22
    THEN [valid |-> FALSE, error |-> "business_hours", field |-> "time"]
    ELSE [valid |-> TRUE, error |-> "", field |-> ""]

\* Date strings: one that does not parse, yesterday, today, tomorrow.  Time
\* strings: one that does not parse, and every half hour of the day.
ValidateArgs ==
    [fn : {"validate_datetime_input"},
     date_str : {Malformed, 0, Today, Today + 1},
     time_str : {Malformed} \cup {h * 60 + m : h \in 0..23, m \in {0, 30}}]

ValidateDatetimeInput ==
    /\ arg.fn = "validate_datetime_input"
    /\ call' = [op |-> "validate_datetime_input"]
               @@ validate_datetime_input(arg.date_str, arg.time_str)
    /\ UNCHANGED <<service, events, arg>>

InitValidate ==
    /\ service = FALSE
    /\ events = {}
    /\ arg \in ValidateArgs
    /\ call = NoCall

NextValidate == ValidateDatetimeInput

SpecValidate == InitValidate /\ [][NextValidate]_vars

---------------------------------------------------------------------------
(* validate_datetime_input: claim C8 *)

\* C8: validate_datetime_input returns valid exactly when the date parses
\* and is not before today and the time parses and lies within 06:00 to
\* 22:00; everything else is rejected with an error, and a bad date is
\* reported before a bad time.
C8_ValidIffInBounds ==
    call.op = "validate_datetime_input" =>
        /\ call.valid <=>
              /\ arg.date_str # Malformed
              /\ arg.date_str >= Today
              /\ arg.time_str # Malformed
              /\ EarliestStart <= arg.time_str
              /\ arg.time_str <= LatestStart
        /\ ~call.valid => call.error # ""
        /\ (arg.date_str = Malformed \/ arg.date_str < Today)
              => call.field = "date"

---------------------------------------------------------------------------
(* extract_datetime_info: the time *)

\* Most tokens in a text.
MaxTokens == 2

\* A text is a sequence of tokens separated by blanks, each an expression
\* of the text:
\*   colon     "H:MMam"          (mer "" when no am/pm follows)
\*   bare      "Ham"
\*   spaced    "H am"
\*   dot       "H.MM"
\*   word      one word (mer)
\*   next      "next <mer>"
\*   this      "this <mer>"
\*   slash     "h/m/YY" (mer "yy") or "h/m/YYYY", the year being NowYear
\*   iso       "YYYY-hh-mm", the year being NowYear
\*   monthday  "<mer> h"         (m = 1: "<mer> hth")
\*   daymonth  "hth <mer>"       (m = 0: "h <mer>")
\*   amount    "h <mer>"         a number and a unit of duration
\*   fraction  "<mer> hour"      half hour, quarter hour
Token(k, h, m, mer) == [k |-> k, h |-> h, m |-> m, mer |-> mer]

PeriodWords == {"noon", "midnight", "morning", "afternoon", "evening"}

TimeTokens ==
    {Token("colon", 9, 30, mer) : mer \in {"", "pm"}}
    \cup {Token("colon", 12, 30, "am"), Token("colon", 25, 99, "")}
    \cup {Token("bare", h, 0, mer) : h \in {2, 12}, mer \in {"am", "pm"}}
    \cup {Token("dot", 9, 30, "")}
    \cup {Token("word", 0, 0, w) : w \in PeriodWords \cup {"meeting"}}

DateTokens ==
    {Token("word", 0, 0, w) : w \in {"today", "tomorrow", "yesterday"}}
    \cup {Token("next", 0, 0, w) : w \in {"week", "monday", "birthday"}}
    \cup {Token("this", 0, 0, "monday")}
    \cup {Token("slash", 3, 15, "yy"), Token("slash", 13, 45, "")}
    \cup {Token("iso", 3, 20, ""), Token("iso", 2, 30, "")}
    \cup {Token("monthday", 5, 0, "march"),
          Token("monthday", 30, 0, "february")}
    \cup {Token("daymonth", 5, 1, "march")}

DurationTokens ==
    {Token("amount", 2, 0, "hours"), Token("amount", 2, 0, "hrs"),
     Token("amount", 30, 0, "mins")}
    \cup {Token("word", 0, 0, "minutes")}
    \cup {Token("fraction", 0, 0, w) : w \in {"half", "quarter"}}

Tokens == TimeTokens \cup DateTokens \cup DurationTokens

\* "Book a meeting tomorrow at 2 PM for 45 minutes"
BookingRequest ==
    <<Token("word", 0, 0, "Book"), Token("word", 0, 0, "a"),
      Token("word", 0, 0, "meeting"), Token("word", 0, 0, "tomorrow"),
      Token("word", 0, 0, "at"), Token("spaced", 2, 0, "PM"),
      Token("word", 0, 0, "for"), Token("amount", 45, 0, "minutes")>>

\* str.lower() of a word.
Lower(s) ==
    CASE s = "PM" -> "pm"
      [] s = "AM" -> "am"
      [] s = "Book" -> "book"
      [] OTHER -> s

\* text.lower()
TextLower(text) ==
    [i \in DOMAIN text |->
        Token(text[i].k, text[i].h, text[i].m, Lower(text[i].mer))]

\* A group of a match: a string of digits (its value n), am or pm, or None.
Digits(n) == [kind |-> "digits", n |-> n, s |-> ""]
Letters(s) == [kind |-> "letters", n |-> 0, s |-> s]
NoGroup == [kind |-> "none", n |-> 0, s |-> ""]

\* The time patterns, in the order of time_patterns, by the tokens they
\* match: pattern 1 H:MM with optional am/pm, pattern 2 the bare hour with
\* am/pm, pattern 3 H.MM, patterns 4 to 8 the period words.
TimePatternMatches(p, tok) ==
    CASE p = 1 -> tok.k = "colon"
      [] p = 2 -> tok.k \in {"bare", "spaced"}
      [] p = 3 -> tok.k = "dot"
      [] p = 4 -> tok.k = "word" /\ tok.mer = "noon"
      [] p = 5 -> tok.k = "word" /\ tok.mer = "midnight"
      [] p = 6 -> tok.k = "word" /\ tok.mer = "morning"
      [] p = 7 -> tok.k = "word" /\ tok.mer = "afternoon"
      [] p = 8 -> tok.k = "word" /\ tok.mer = "evening"

\* match.groups() of pattern p on token tok.
Groups(p, tok) ==
    CASE p = 1 -> <<Digits(tok.h), Digits(tok.m),
                    IF tok.mer = "" THEN NoGroup ELSE Letters(tok.mer)>>
      [] p = 2 -> <<Digits(tok.h), Letters(tok.mer)>>
      [] p = 3 -> <<Digits(tok.h), Digits(tok.m)>>
      [] OTHER -> <<>>

\* re.search(pattern, text_lower): the index of the leftmost token the
\* pattern matches, 0 when there is none.
Search(p, text) ==
    IF \E i \in 1..Len(text) : TimePatternMatches(p, text[i])
    THEN CHOOSE i \in 1..Len(text) :
            /\ TimePatternMatches(p, text[i])
            /\ \A j \in 1..(i - 1) : ~TimePatternMatches(p, text[j])
    ELSE 0

\* None, and the "HH:MM" string of an hour and a minute.
None == <<>>
HHMM(hour, minute) == <<hour, minute>>

\* "if am_pm: ..." : the hour after the am/pm step.
Meridiem(hour, am_pm) ==
    IF am_pm.kind = "letters" /\ am_pm.s = "pm" /\ hour # 12 THEN hour + 12
    ELSE IF am_pm.kind = "letters" /\ am_pm.s = "am" /\ hour = 12 THEN 0
    ELSE hour

\* _parse_time_match on the groups of a match of patterns 1 to 3: int() of
\* a group that is not digits raises ValueError, which the function's
\* except turns into None.
parse_time_match(groups) ==
    LET hour == groups[1].n
        readsMinute == Len(groups) > 1 /\ groups[2].kind # "none"
        am_pm == IF Len(groups) > 2 THEN groups[Len(groups)] ELSE NoGroup
    IN
    IF readsMinute /\ groups[2].kind # "digits" THEN None
    ELSE HHMM(Meridiem(hour, am_pm), IF readsMinute THEN groups[2].n ELSE 0)

\* The time a match of pattern p on token tok resolves to.
ResolveTime(p, tok) ==
    CASE p = 4 -> HHMM(12, 0)
      [] p = 5 -> HHMM(0, 0)
      [] p = 6 -> HHMM(9, 0)
      [] p = 7 -> HHMM(14, 0)
      [] p = 8 -> HHMM(18, 0)
      [] OTHER -> parse_time_match(Groups(p, tok))

RECURSIVE ExtractTime(_, _)
\* "for pattern in time_patterns" from pattern p on: the first pattern that
\* matches sets result['time'] and breaks; nothing in the try block raises.
ExtractTime(text, p) ==
    IF p > 8 THEN None
    ELSE IF Search(p, text) # 0 THEN ResolveTime(p, text[Search(p, text)])
    ELSE ExtractTime(text, p + 1)

---------------------------------------------------------------------------
(* extract_datetime_info: the characters of the text *)

\* The date and duration patterns are matched on the characters of the
\* text, read as atoms: a run of letters, a run of len digits of value n,
\* or one separator (" " stands for a run of blanks).  Letters and digits
\* are word characters, so a word boundary \b lies between a separator or
\* an end of the text and a letter or digit, and nowhere else.
Let(s) == [c |-> "let", s |-> s, n |-> 0, len |-> 0]
Num(n, len) == [c |-> "num", s |-> "", n |-> n, len |-> len]
Sep(ch) == [c |-> "sep", s |-> ch, n |-> 0, len |-> 0]

\* The number of digits n is written with, and n written with two digits.
Width(n) == IF n < 10 THEN 1 ELSE IF n < 100 THEN 2 ELSE IF n < 1000 THEN 3 ELSE 4
Plain(n) == Num(n, Width(n))
TwoDigits(n) == Num(n, 2)

\* datetime.now(): 10 March 2025, a Monday; its date is day Today.
NowYear == 2025
NowMonth == 3
NowDay == 10

\* The characters of a token.
Spell(tok) ==
    CASE tok.k = "colon" ->
            <<Plain(tok.h), Sep(":"), TwoDigits(tok.m)>>
            \o (IF tok.mer = "" THEN <<>> ELSE <<Let(tok.mer)>>)
      [] tok.k = "bare" -> <<Plain(tok.h), Let(tok.mer)>>
      [] tok.k = "spaced" -> <<Plain(tok.h), Sep(" "), Let(tok.mer)>>
      [] tok.k = "dot" -> <<Plain(tok.h), Sep("."), TwoDigits(tok.m)>>
      [] tok.k = "word" -> <<Let(tok.mer)>>
      [] tok.k = "next" -> <<Let("next"), Sep(" "), Let(tok.mer)>>
      [] tok.k = "this" -> <<Let("this"), Sep(" "), Let(tok.mer)>>
      [] tok.k = "slash" ->
            <<Plain(tok.h), Sep("/"), Plain(tok.m), Sep("/"),
              IF tok.mer = "yy" THEN TwoDigits(NowYear % 100)
              ELSE Plain(NowYear)>>
      [] tok.k = "iso" ->
            <<Plain(NowYear), Sep("-"), TwoDigits(tok.h), Sep("-"),
              TwoDigits(tok.m)>>
      [] tok.k = "monthday" ->
            <<Let(tok.mer), Sep(" "), Plain(tok.h)>>
            \o (IF tok.m = 1 THEN <<Let("th")>> ELSE <<>>)
      [] tok.k = "daymonth" ->
            <<Plain(tok.h)>>
            \o (IF tok.m = 1 THEN <<Let("th")>> ELSE <<>>)
            \o <<Sep(" "), Let(tok.mer)>>
      [] tok.k = "amount" -> <<Plain(tok.h), Sep(" "), Let(tok.mer)>>
      [] tok.k = "fraction" -> <<Let(tok.mer), Sep(" "), Let("hour")>>

RECURSIVE Chars(_)
\* The characters of a text: its tokens with a blank between them.
Chars(text) ==
    IF text = <<>> THEN <<>>
    ELSE IF Len(text) = 1 THEN Spell(text[1])
    ELSE Spell(Head(text)) \o <<Sep(" ")>> \o Chars(Tail(text))

\* \b before atom i and after atom i, for a letter or digit atom i.
BoundaryBefore(a, i) == i = 1 \/ a[i - 1].c = "sep"
BoundaryAfter(a, i) == i = Len(a) \/ a[i + 1].c = "sep"

\* Atom i is the letters s; is a blank; is one of the separators / and -;
\* is a number of lo to hi digits.
IsLet(a, i, s) == i <= Len(a) /\ a[i] = Let(s)
IsBlank(a, i) == i <= Len(a) /\ a[i] = Sep(" ")
IsDateSep(a, i) == i <= Len(a) /\ a[i] \in {Sep("/"), Sep("-")}
IsNum(a, i, lo, hi) ==
    i <= Len(a) /\ a[i].c = "num" /\ lo <= a[i].len /\ a[i].len <= hi

\* Atom i starts a run of word characters (\b\w+): the run ends at RunEnd.
StartsRun(a, i) == i <= Len(a) /\ a[i].c # "sep" /\ BoundaryBefore(a, i)
RunEnd(a, i) ==
    CHOOSE j \in i..Len(a) :
        /\ \A k \in i..j : a[k].c # "sep"
        /\ BoundaryAfter(a, j)

\* The run of word characters from atom i, when it is letters only ("" for
\* a run with digits in it, which is no name of a month or weekday).
RunName(a, i) == IF RunEnd(a, i) = i /\ a[i].c = "let" THEN a[i].s ELSE ""

\* The leftmost of the atoms where a pattern matches, 0 when it matches
\* nowhere.
Leftmost(starts) ==
    IF starts = {} THEN 0
    ELSE CHOOSE i \in starts : \A j \in starts : i <= j

---------------------------------------------------------------------------
(* extract_datetime_info: dates *)

\* A resolved value x, as opposed to None.
Some(x) == <<x>>

\* The calendar of datetime: leap years, the days of a month, and
\* date.toordinal().
IsLeap(y) == y % 4 = 0 /\ (y % 100 # 0 \/ y % 400 = 0)

DaysInMonth(y, m) ==
    CASE m = 2 -> IF IsLeap(y) THEN 29 ELSE 28
      [] m \in {4, 6, 9, 11} -> 30
      [] OTHER -> 31

RECURSIVE DaysBeforeMonth(_, _)
DaysBeforeMonth(y, m) ==
    IF m = 1 THEN 0
    ELSE DaysBeforeMonth(y, m - 1) + DaysInMonth(y, m - 1)

ToOrdinal(y, m, d) ==
    365 * (y - 1) + ((y - 1) \div 4) - ((y - 1) \div 100)
        + ((y - 1) \div 400) + DaysBeforeMonth(y, m) + d

\* datetime(year, month, day).date() as a day, Today being the date of
\* datetime.now(); None when the constructor raises ValueError.
DateOf(y, m, d) ==
    IF 1 <= y /\ y <= 9999 /\ 1 <= m /\ m <= 12
       /\ 1 <= d /\ d <= DaysInMonth(y, m)
    THEN Some(ToOrdinal(y, m, d) - ToOrdinal(NowYear, NowMonth, NowDay)
              + Today)
    ELSE None

\* date.weekday() of a day: Monday is 0.
Weekday(day) ==
    (day - Today + ToOrdinal(NowYear, NowMonth, NowDay) + 6) % 7

\* weekday_map.get(name): -1 stands for None.
weekday_map(name) ==
    CASE name = "monday" -> 0
      [] name = "tuesday" -> 1
      [] name = "wednesday" -> 2
      [] name = "thursday" -> 3
      [] name = "friday" -> 4
      [] name = "saturday" -> 5
      [] name = "sunday" -> 6
      [] OTHER -> 0 - 1

NextDaysAheadSameDay(target, today) ==
    IF target - Weekday(today) < 0 THEN target - Weekday(today) + 7
    ELSE target - Weekday(today)

\* The next-weekday step that advances a week when the target is today or
\* earlier in the week.
NextDaysAhead(target, today) ==
    IF target - Weekday(today) <= 0 THEN target - Weekday(today) + 7
    ELSE target - Weekday(today)

ThisDaysAheadStrict(target, today) ==
    IF target - Weekday(today) <= 0 THEN target - Weekday(today) + 7
    ELSE target - Weekday(today)

\* The this-weekday step that advances a week only when the target is
\* earlier in the week.
ThisDaysAhead(target, today) ==
    IF target - Weekday(today) < 0 THEN target - Weekday(today) + 7
    ELSE target - Weekday(today)

\* _parse_next_weekday and _parse_this_weekday on the weekday name of
\* the match, today being the date of datetime.now().
parse_next_weekday(weekday_name, today) ==
    IF weekday_map(weekday_name) < 0 THEN None
    ELSE Some(today + NextDaysAhead(weekday_map(weekday_name), today))

parse_this_weekday(weekday_name, today) ==
    IF weekday_map(weekday_name) < 0 THEN None
    ELSE Some(today + ThisDaysAhead(weekday_map(weekday_name), today))

\* _parse_date_slash on the groups month, day, year; a year below 100 is
\* taken in 2000-2049 or 1950-1999.
parse_date_slash(month, day, year) ==
    DateOf(IF year < 100
           THEN (IF year < 50 THEN year + 2000 ELSE year + 1900)
           ELSE year,
           month, day)

\* _parse_date_iso on the groups year, month, day.
parse_date_iso(year, month, day) == DateOf(year, month, day)

\* month_map.get(name): 0 stands for None.
month_map(name) ==
    CASE name \in {"january", "jan"} -> 1
      [] name \in {"february", "feb"} -> 2
      [] name \in {"march", "mar"} -> 3
      [] name \in {"april", "apr"} -> 4
      [] name = "may" -> 5
      [] name \in {"june", "jun"} -> 6
      [] name \in {"july", "jul"} -> 7
      [] name \in {"august", "aug"} -> 8
      [] name \in {"september", "sep"} -> 9
      [] name \in {"october", "oct"} -> 10
      [] name \in {"november", "nov"} -> 11
      [] name \in {"december", "dec"} -> 12
      [] OTHER -> 0

parse_month_day_roll_today(month_name, day) ==
    IF month_map(month_name) = 0 THEN None
    ELSE IF DateOf(NowYear, month_map(month_name), day) = None THEN None
    ELSE IF DateOf(NowYear, month_map(month_name), day)[1] <= Today
         THEN DateOf(NowYear + 1, month_map(month_name), day)
    ELSE DateOf(NowYear, month_map(month_name), day)

\* _parse_month_day and _parse_day_month on the month name and the day:
\* the date in this year, or in the next year when that is before today;
\* None for an unknown name or a date the constructor refuses.
parse_month_day(month_name, day) ==
    IF month_map(month_name) = 0 THEN None
    ELSE IF DateOf(NowYear, month_map(month_name), day) = None THEN None
    ELSE IF DateOf(NowYear, month_map(month_name), day)[1] < Today
         THEN DateOf(NowYear + 1, month_map(month_name), day)
    ELSE DateOf(NowYear, month_map(month_name), day)

parse_day_month(day, month_name) == parse_month_day(month_name, day)

\* An ordinal suffix of a day number.
IsSuffix(a, i) ==
    i <= Len(a) /\ a[i].c = "let" /\ a[i].s \in {"st", "nd", "rd", "th"}

\* (\d{1,2})(?:st|nd|rd|th)?\b from atom i: one or two digits, then a word
\* boundary, after an ordinal suffix or without one.
IsDayNumber(a, i) ==
    /\ IsNum(a, i, 1, 2)
    /\ \/ BoundaryAfter(a, i)
       \/ IsSuffix(a, i + 1) /\ BoundaryAfter(a, i + 1)

\* (\w+day)\b from atom i: a word of letters that ends in "day" after at
\* least one character.
IsDayWord(a, i) ==
    /\ i <= Len(a)
    /\ a[i].s \in {"monday", "tuesday", "wednesday", "thursday", "friday",
                   "saturday", "sunday", "today", "yesterday", "birthday"}
    /\ BoundaryAfter(a, i)

\* \b<word>\b from atom i.
IsWholeWord(a, i, s) ==
    IsLet(a, i, s) /\ BoundaryBefore(a, i) /\ BoundaryAfter(a, i)

\* The atom after the blank that follows (\d{1,2})(?:st|nd|rd|th)? from
\* atom i, in pattern 10.
AfterDay(a, i) == IF IsSuffix(a, i + 1) THEN i + 3 ELSE i + 2

\* The date patterns, in the order of date_patterns: pattern p matches the
\* characters a from atom i on.
DateMatchAt(p, a, i) ==
    CASE p = 1 -> IsWholeWord(a, i, "today")
      [] p = 2 -> IsWholeWord(a, i, "tomorrow")
      [] p = 3 -> IsWholeWord(a, i, "yesterday")
      [] p = 4 -> /\ IsLet(a, i, "next") /\ BoundaryBefore(a, i)
                  /\ IsBlank(a, i + 1)
                  /\ IsLet(a, i + 2, "week") /\ BoundaryAfter(a, i + 2)
      [] p = 5 -> /\ IsLet(a, i, "next") /\ BoundaryBefore(a, i)
                  /\ IsBlank(a, i + 1)
                  /\ IsDayWord(a, i + 2)
      [] p = 6 -> /\ IsLet(a, i, "this") /\ BoundaryBefore(a, i)
                  /\ IsBlank(a, i + 1)
                  /\ IsDayWord(a, i + 2)
      [] p = 7 -> /\ IsNum(a, i, 1, 2) /\ BoundaryBefore(a, i)
                  /\ IsDateSep(a, i + 1)
                  /\ IsNum(a, i + 2, 1, 2)
                  /\ IsDateSep(a, i + 3)
                  /\ IsNum(a, i + 4, 2, 4) /\ BoundaryAfter(a, i + 4)
      [] p = 8 -> /\ IsNum(a, i, 4, 4) /\ BoundaryBefore(a, i)
                  /\ IsDateSep(a, i + 1)
                  /\ IsNum(a, i + 2, 1, 2)
                  /\ IsDateSep(a, i + 3)
                  /\ IsNum(a, i + 4, 1, 2) /\ BoundaryAfter(a, i + 4)
      [] p = 9 -> /\ StartsRun(a, i)
                  /\ IsBlank(a, RunEnd(a, i) + 1)
                  /\ IsDayNumber(a, RunEnd(a, i) + 2)
      [] p = 10 -> /\ IsNum(a, i, 1, 2) /\ BoundaryBefore(a, i)
                   /\ IsBlank(a, AfterDay(a, i) - 1)
                   /\ AfterDay(a, i) <= Len(a)
                   /\ a[AfterDay(a, i)].c # "sep"

\* re.search(pattern, text_lower) for date pattern p: the atom where the
\* leftmost match starts, 0 when the pattern matches nowhere.
DateSearch(p, a) == Leftmost({i \in 1..Len(a) : DateMatchAt(p, a, i)})

ResolveDateTomorrowAsToday(p, a, i) == Some(Today)

\* What the parser of date pattern p returns on the match from atom i.
ResolveDate(p, a, i) ==
    CASE p = 1 -> Some(Today)
      [] p = 2 -> Some(Today + 1)
      [] p = 3 -> Some(Today - 1)
      [] p = 4 -> Some(Today + 7)
      [] p = 5 -> parse_next_weekday(a[i + 2].s, Today)
      [] p = 6 -> parse_this_weekday(a[i + 2].s, Today)
      [] p = 7 -> parse_date_slash(a[i].n, a[i + 2].n, a[i + 4].n)
      [] p = 8 -> parse_date_iso(a[i].n, a[i + 2].n, a[i + 4].n)
      [] p = 9 -> parse_month_day(RunName(a, i), a[RunEnd(a, i) + 2].n)
      [] p = 10 -> parse_day_month(a[i].n, RunName(a, AfterDay(a, i)))

RECURSIVE ExtractDateReversed(_, _)
ExtractDateReversed(a, p) ==
    LET match == DateSearch(11 - p, a)
        date == ResolveDate(11 - p, a, match)
    IN IF p > 10 THEN None
       ELSE IF match # 0 /\ date # None THEN date
       ELSE ExtractDateReversed(a, p + 1)

RECURSIVE ExtractDateBreakOnMatch(_, _)
ExtractDateBreakOnMatch(a, p) ==
    LET match == DateSearch(p, a)
    IN IF p > 10 THEN None
       ELSE IF match # 0 THEN ResolveDate(p, a, match)
       ELSE ExtractDateBreakOnMatch(a, p + 1)

RECURSIVE ExtractDate(_, _)
\* "for pattern, parser in date_patterns" from pattern p on: the first
\* pattern that matches and whose parser returns a date sets
\* result['date'] and breaks; when the parser returns None, strftime on it
\* raises, the except continues with the next pattern.
ExtractDate(a, p) ==
    LET match == DateSearch(p, a)
        date == ResolveDate(p, a, match)
    IN IF p > 10 THEN None
       ELSE IF match # 0 /\ date # None THEN date
       ELSE ExtractDate(a, p + 1)

---------------------------------------------------------------------------
(* extract_datetime_info: durations *)

\* The words of the texts that start with "hour", with "min", with "hr",
\* and those that contain "minute".
HourWords == {"hour", "hours"}
MinWords == {"min", "mins", "minute", "minutes"}
HrWords == {"hr", "hrs"}
MinuteWords == {"minute", "minutes"}

\* (\d+)\s*<unit> from atom i, the unit starting a word of units: a
\* number, blanks or none, and the unit.  No \b is asked for.
IsAmount(a, i, units) ==
    /\ i <= Len(a) /\ a[i].c = "num"
    /\ \/ i + 1 <= Len(a) /\ a[i + 1].c = "let" /\ a[i + 1].s \in units
       \/ /\ IsBlank(a, i + 1)
          /\ i + 2 <= Len(a) /\ a[i + 2].c = "let" /\ a[i + 2].s \in units

\* <word>\s*hour from atom i.
IsFraction(a, i, word) ==
    /\ IsLet(a, i, word)
    /\ \/ i + 1 <= Len(a) /\ a[i + 1].s \in HourWords
       \/ IsBlank(a, i + 1) /\ i + 2 <= Len(a) /\ a[i + 2].s \in HourWords

\* The duration patterns, in the order of duration_patterns.  Pattern 2 is
\* the alternation (\d+)\s*mins? | minutes? : it also matches the bare
\* word "minute(s)", with no group 1.
DurationMatchAt(p, a, i) ==
    CASE p = 1 -> IsAmount(a, i, HourWords)
      [] p = 2 -> \/ IsAmount(a, i, MinWords)
                  \/ i <= Len(a) /\ a[i].c = "let" /\ a[i].s \in MinuteWords
      [] p = 3 -> IsAmount(a, i, HrWords)
      [] p = 4 -> IsFraction(a, i, "half")
      [] p = 5 -> IsFraction(a, i, "quarter")

DurationSearch(p, a) ==
    Leftmost({i \in 1..Len(a) : DurationMatchAt(p, a, i)})

ResolveDurationBareAsZero(p, a, i) ==
    CASE p = 1 -> Some(a[i].n * 60)
      [] p = 2 -> Some(a[i].n)
      [] p = 3 -> Some(a[i].n * 60)
      [] p = 4 -> Some(30)
      [] p = 5 -> Some(15)

\* What the parser of duration pattern p returns on the match from atom
\* i; None when it raises: int(None) for a match of pattern 2 without
\* group 1.
ResolveDuration(p, a, i) ==
    CASE p = 1 -> Some(a[i].n * 60)
      [] p = 2 -> IF a[i].c = "num" THEN Some(a[i].n) ELSE None
      [] p = 3 -> Some(a[i].n * 60)
      [] p = 4 -> Some(30)
      [] p = 5 -> Some(15)

RECURSIVE ExtractDuration(_, _)
\* "for pattern, parser in duration_patterns" from pattern p on: the first
\* pattern that matches and whose parser does not raise sets
\* result['duration'] and breaks.
ExtractDuration(a, p) ==
    LET match == DurationSearch(p, a)
        duration == ResolveDuration(p, a, match)
    IN IF p > 5 THEN None
       ELSE IF match # 0 /\ duration # None THEN duration
       ELSE ExtractDuration(a, p + 1)

---------------------------------------------------------------------------
(* extract_datetime_info: the combined datetime *)

\* "if result['date'] and result['time']": datetime.combine of the date
\* and time(hour, minute), which raises for an hour above 23 or a minute
\* above 59; the except leaves parsed_datetime None.
CombineDateTime(date, time) ==
    IF date = None \/ time = None THEN None
    ELSE IF time[1] > 23 \/ time[2] > 59 THEN None
    ELSE Some(Combine(date[1], time[1] * 60 + time[2]))

ExtractArgs ==
    [fn : {"extract_datetime_info"},
     text : SeqsUpTo(Tokens, MaxTokens) \cup {BookingRequest}]

\* extract_datetime_info: the result dictionary.  A date string is
\* modelled by the day it denotes.
extract_datetime_info(text) ==
    LET text_lower == TextLower(text)
        chars == Chars(text_lower)
        date == ExtractDate(chars, 1)
        time == ExtractTime(text_lower, 1)
    IN [date |-> date,
        time |-> time,
        duration |-> ExtractDuration(chars, 1),
        date_str |-> date,
        time_str |-> time,
        parsed_datetime |-> CombineDateTime(date, time)]

ExtractDatetimeInfo ==
    /\ arg.fn = "extract_datetime_info"
    /\ call' = [op |-> "extract_datetime_info"]
                @@ extract_datetime_info(arg.text)
    /\ UNCHANGED <<service, events, arg>>

InitExtract ==
    /\ service = FALSE
    /\ events = {}
    /\ arg \in ExtractArgs
    /\ call = NoCall

NextExtract == ExtractDatetimeInfo

SpecExtract == InitExtract /\ [][NextExtract]_vars

---------------------------------------------------------------------------
(* _parse_next_weekday and _parse_this_weekday *)

WeekdayNames ==
    {"monday", "tuesday", "wednesday", "thursday", "friday", "saturday",
     "sunday", "birthday"}

\* The weekday name of the match, and the date of datetime.now(): seven
\* days in a row, one for each weekday.
WeekdayArgs ==
    [fn : {"parse_next_weekday", "parse_this_weekday"},
     weekday_name : WeekdayNames,
     today : Today..(Today + 6)]

ParseNextWeekday ==
    /\ arg.fn = "parse_next_weekday"
    /\ call' = [op |-> "parse_next_weekday",
                ret |-> parse_next_weekday(arg.weekday_name, arg.today)]
    /\ UNCHANGED <<service, events, arg>>

ParseThisWeekday ==
    /\ arg.fn = "parse_this_weekday"
    /\ call' = [op |-> "parse_this_weekday",
                ret |-> parse_this_weekday(arg.weekday_name, arg.today)]
    /\ UNCHANGED <<service, events, arg>>

InitWeekday ==
    /\ service = FALSE
    /\ events = {}
    /\ arg \in WeekdayArgs
    /\ call = NoCall

NextWeekday == ParseNextWeekday \/ ParseThisWeekday

SpecWeekday == InitWeekday /\ [][NextWeekday]_vars

---------------------------------------------------------------------------
(* _parse_month_day and _parse_day_month *)

\* Month names of the match (full, abbreviated, and one month_map lacks)
\* and days, around the date of datetime.now().
MonthNames == {"january", "feb", "march", "mar", "april", "december", "sept"}
MonthDays == {1, 9, 10, 11, 29, 31}

MonthDayArgs ==
    [fn : {"parse_month_day", "parse_day_month"},
     month_name : MonthNames,
     day : MonthDays]

ParseMonthDay ==
    /\ arg.fn = "parse_month_day"
    /\ call' = [op |-> "parse_month_day",
                ret |-> parse_month_day(arg.month_name, arg.day)]
    /\ UNCHANGED <<service, events, arg>>

ParseDayMonth ==
    /\ arg.fn = "parse_day_month"
    /\ call' = [op |-> "parse_day_month",
                ret |-> parse_day_month(arg.day, arg.month_name)]
    /\ UNCHANGED <<service, events, arg>>

InitMonthDay ==
    /\ service = FALSE
    /\ events = {}
    /\ arg \in MonthDayArgs
    /\ call = NoCall

NextMonthDay == ParseMonthDay \/ ParseDayMonth

SpecMonthDay == InitMonthDay /\ [][NextMonthDay]_vars

---------------------------------------------------------------------------
(* extract_datetime_info: claim C10 *)

\* The 24-hour hour of hour h written with mer: pm and h other than 12 adds
\* 12, am and 12 gives 0, no am/pm leaves h.
Normalized(h, mer) ==
    IF mer = "pm" /\ h # 12 THEN h + 12
    ELSE IF mer = "am" /\ h = 12 THEN 0
    ELSE h

HasKind(text, k) == \E i \in 1..Len(text) : text[i].k = k

FirstOfKind(text, k) ==
    text[CHOOSE i \in 1..Len(text) :
            text[i].k = k /\ \A j \in 1..(i - 1) : text[j].k # k]

\* C10: the extracted time has its meridiem normalized, for the H:MM form
\* and for the bare-hour form alike: "2pm" gives 14:00, "12am" 00:00,
\* "12pm" 12:00 and "9:30" 09:30.
C10_MeridiemNormalized ==
    call.op = "extract_datetime_info" =>
        /\ HasKind(arg.text, "colon") =>
              LET tok == FirstOfKind(arg.text, "colon")
              IN call.time = HHMM(Normalized(tok.h, tok.mer), tok.m)
        /\ (~HasKind(arg.text, "colon") /\ HasKind(arg.text, "bare")) =>
              LET tok == FirstOfKind(arg.text, "bare")
              IN call.time = HHMM(Normalized(tok.h, tok.mer), 0)
        /\ arg.text = <<Token("bare", 2, 0, "pm")>> => call.time = HHMM(14, 0)
        /\ arg.text = <<Token("bare", 12, 0, "am")>> => call.time = HHMM(0, 0)
        /\ arg.text = <<Token("bare", 12, 0, "pm")>> => call.time = HHMM(12, 0)
        /\ arg.text = <<Token("colon", 9, 30, "")>> => call.time = HHMM(9, 30)

---------------------------------------------------------------------------
(* extract_datetime_info: claims C11 and C12 *)

Extracted == call.op = "extract_datetime_info"

\* C11: the text "Book a meeting tomorrow at 2 PM for 45 minutes" yields
\* the date of tomorrow, the time 14:00, the duration 45 minutes, and
\* tomorrow 14:00 as the combined datetime.
C11_BookingRequestExtracted ==
    (Extracted /\ arg.text = BookingRequest) =>
        /\ call.date = Some(Today + 1)
        /\ call.time = HHMM(14, 0)
        /\ call.duration = Some(45)
        /\ call.parsed_datetime = Some(Combine(Today + 1, 14 * 60))

\* The text has the word w.
HasWord(text, w) ==
    \E i \in 1..Len(text) : TextLower(text)[i] = Token("word", 0, 0, w)

\* C12 as stated: every text with the word "tomorrow" has the date of
\* tomorrow extracted, whatever else it contains.
C12_TomorrowAlways ==
    (Extracted /\ HasWord(arg.text, "tomorrow")) =>
        call.date = Some(Today + 1)

\* C12: every text with the word "tomorrow" and without the word "today"
\* has the date of tomorrow extracted, whatever time, duration or other
\* date expression it contains.
C12_TomorrowUnlessToday ==
    (Extracted /\ HasWord(arg.text, "tomorrow")
               /\ ~HasWord(arg.text, "today")) =>
        call.date = Some(Today + 1)

\* "tomorrow" after another date expression: "3/15/25 tomorrow".
C12_Witness ==
    /\ Extracted
    /\ arg.text = <<Token("slash", 3, 15, "yy"), Token("word", 0, 0, "tomorrow")>>
    /\ call.date = Some(Today + 1)

---------------------------------------------------------------------------
(* _parse_next_weekday and _parse_this_weekday: claims C13 and C14 *)

\* The weekday (Monday 0 .. Sunday 6) a name of the week denotes.
NamedWeekday(name) ==
    CHOOSE n \in 0..6 :
        name = <<"monday", "tuesday", "wednesday", "thursday", "friday",
                 "saturday", "sunday">>[n + 1]

\* C13: "next <weekday>" resolves to the first date strictly after today
\* that falls on that weekday: 1 to 7 days ahead, 7 when today is that
\* weekday, never today.
C13_NextWeekdayStrictlyAfter ==
    (call.op = "parse_next_weekday" /\ arg.weekday_name # "birthday") =>
        /\ call.ret # None
        /\ call.ret[1] \in (arg.today + 1)..(arg.today + 7)
        /\ Weekday(call.ret[1]) = NamedWeekday(arg.weekday_name)
        /\ \A d \in (arg.today + 1)..(call.ret[1] - 1) :
              Weekday(d) # NamedWeekday(arg.weekday_name)
        /\ Weekday(arg.today) = NamedWeekday(arg.weekday_name)
              => call.ret[1] = arg.today + 7

\* "next <weekday>" on that weekday: a week ahead.
C13_Witness ==
    /\ call.op = "parse_next_weekday"
    /\ arg.weekday_name # "birthday"
    /\ Weekday(arg.today) = NamedWeekday(arg.weekday_name)
    /\ call.ret = Some(arg.today + 7)

\* C14: "this <weekday>" resolves to the first date on or after today that
\* falls on that weekday: 0 to 6 days ahead, 0 when today is that weekday.
C14_ThisWeekdayOnOrAfter ==
    (call.op = "parse_this_weekday" /\ arg.weekday_name # "birthday") =>
        /\ call.ret # None
        /\ call.ret[1] \in arg.today..(arg.today + 6)
        /\ Weekday(call.ret[1]) = NamedWeekday(arg.weekday_name)
        /\ \A d \in arg.today..(call.ret[1] - 1) :
              Weekday(d) # NamedWeekday(arg.weekday_name)
        /\ Weekday(arg.today) = NamedWeekday(arg.weekday_name)
              => call.ret[1] = arg.today

\* "this <weekday>" on that weekday: today.
C14_Witness ==
    /\ call.op = "parse_this_weekday"
    /\ arg.weekday_name # "birthday"
    /\ Weekday(arg.today) = NamedWeekday(arg.weekday_name)
    /\ call.ret = Some(arg.today)

\* "this <weekday>" for a weekday earlier in the week than today.
C14_WitnessWrap ==
    /\ call.op = "parse_this_weekday"
    /\ arg.weekday_name # "birthday"
    /\ NamedWeekday(arg.weekday_name) < Weekday(arg.today)
    /\ call.ret[1] > arg.today

---------------------------------------------------------------------------
(* extract_datetime_info: claims C15 and C16 *)

\* The characters the patterns are matched on.
TextChars == Chars(TextLower(arg.text))

\* What the parser of date pattern p returns on its match in chars; p
\* matches and its parser returns a date; p matches and its parser fails.
DateParsed(chars, p) == ResolveDate(p, chars, DateSearch(p, chars))
DateResolves(chars, p) ==
    DateSearch(p, chars) # 0 /\ DateParsed(chars, p) # None
DateFails(chars, p) ==
    DateSearch(p, chars) # 0 /\ DateParsed(chars, p) = None

\* The pattern that matches a date token on its own (today 1, tomorrow 2,
\* yesterday 3, next week 4, next <weekday> 5, this <weekday> 6, N/N/N 7,
\* ISO 8), and 0 for the other tokens.
OwnPattern(tok) ==
    CASE tok.k = "word" /\ tok.mer = "today" -> 1
      [] tok.k = "word" /\ tok.mer = "tomorrow" -> 2
      [] tok.k = "word" /\ tok.mer = "yesterday" -> 3
      [] tok.k = "next" /\ tok.mer = "week" -> 4
      [] tok.k = "next" /\ tok.mer # "week" -> 5
      [] tok.k = "this" -> 6
      [] tok.k = "slash" -> 7
      [] tok.k = "iso" -> 8
      [] OTHER -> 0

\* The date such a token denotes, None when it denotes none.
OwnDate(tok) ==
    CASE OwnPattern(tok) = 1 -> Some(Today)
      [] OwnPattern(tok) = 2 -> Some(Today + 1)
      [] OwnPattern(tok) = 3 -> Some(Today - 1)
      [] OwnPattern(tok) = 4 -> Some(Today + 7)
      [] OwnPattern(tok) = 5 ->
            IF tok.mer = "birthday" THEN None
            ELSE Some(CHOOSE d \in (Today + 1)..(Today + 7) :
                        Weekday(d) = NamedWeekday(tok.mer))
      [] OwnPattern(tok) = 6 ->
            IF tok.mer = "birthday" THEN None
            ELSE Some(CHOOSE d \in Today..(Today + 6) :
                        Weekday(d) = NamedWeekday(tok.mer))
      [] OwnPattern(tok) \in {7, 8} -> DateOf(NowYear, tok.h, tok.m)
      [] OTHER -> None

\* Token i of the text denotes a date by one of the patterns 1 to 8.
Dated(i) == OwnPattern(arg.text[i]) # 0 /\ OwnDate(arg.text[i]) # None

\* Token i is the leftmost token of its pattern: re.search gives a pattern
\* its leftmost match only.
LeftmostOfPattern(i) ==
    \A j \in 1..(i - 1) : OwnPattern(arg.text[j]) # OwnPattern(arg.text[i])

\* C15: the extracted date is the one of the highest-priority pattern that
\* matches and resolves, in the order today/tomorrow/yesterday, next week,
\* next <weekday>, this <weekday>, N/N/N, ISO, month-name forms; it does
\* not depend on where the expressions stand in the text, and no
\* lower-priority pattern overrides a higher-priority one.
C15_DatePriorityOrder ==
    Extracted =>
        /\ LET chars == TextChars
               resolving == {p \in 1..10 : DateResolves(chars, p)}
           IN \A p \in resolving :
                 (\A q \in resolving : p <= q)
                    => call.date = DateParsed(chars, p)
        /\ \A i \in 1..Len(arg.text) :
              (/\ Dated(i)
               /\ LeftmostOfPattern(i)
               /\ \A j \in 1..Len(arg.text) :
                     Dated(j) =>
                        OwnPattern(arg.text[j]) >= OwnPattern(arg.text[i]))
                 => call.date = OwnDate(arg.text[i])

\* A lower-priority date expression before a higher-priority one:
\* "2025-03-20 next week" gives the date of next week.
C15_Witness ==
    /\ Extracted
    /\ arg.text = <<Token("iso", 3, 20, ""), Token("next", 0, 0, "week")>>
    /\ call.date = Some(Today + 7)

\* C16: a date pattern that matches but whose parser fails (an invalid day
\* of the month, an unknown month or weekday name) leaves the date
\* unresolved by that pattern, and every lower-priority pattern is still
\* tried: the first of them that resolves gives the date, and when none
\* resolves the date, its string and the combined datetime stay None.
C16_DateParserFailureSkipped ==
    Extracted =>
        LET chars == TextChars
            resolving == {p \in 1..10 : DateResolves(chars, p)}
            failing == {p \in 1..10 : DateFails(chars, p)}
        IN \A p \in failing :
              (\A r \in resolving : r > p) =>
                 /\ \A q \in resolving :
                       (\A r \in resolving : q <= r)
                          => call.date = DateParsed(chars, q)
                 /\ resolving = {} =>
                       /\ call.date = None
                       /\ call.date_str = None
                       /\ call.parsed_datetime = None

\* "next birthday 3/15/25": the weekday parser fails on "birthday" and the
\* N/N/N pattern gives 15 March.
C16_Witness ==
    /\ Extracted
    /\ arg.text = <<Token("next", 0, 0, "birthday"), Token("slash", 3, 15, "yy")>>
    /\ DateFails(TextChars, 5)
    /\ call.date = DateOf(NowYear, 3, 15)

\* "february 30" alone: both month-name patterns match, neither resolves.
C16_WitnessNone ==
    /\ Extracted
    /\ arg.text = <<Token("monthday", 30, 0, "february")>>
    /\ DateFails(TextChars, 9)
    /\ call.date = None

---------------------------------------------------------------------------
(* extract_datetime_info: claims C17 to C20 *)

\* Time pattern p matches the text; what pattern p resolves its match to;
\* p matches and resolves; p matches and its parse fails.
TimeMatches(p) == Search(p, TextLower(arg.text)) # 0
TimeParsed(p) ==
    ResolveTime(p, TextLower(arg.text)[Search(p, TextLower(arg.text))])
TimeResolves(p) == TimeMatches(p) /\ TimeParsed(p) # None
TimeFails(p) == TimeMatches(p) /\ TimeParsed(p) = None

\* C17: when a time pattern matches but parsing its match fails, the
\* lower-priority time patterns (the period words among them) are still
\* tried: a text that also has a resolvable lower-priority time
\* expression ends with that time.
C17_TimeParseFailureTriesNext ==
    Extracted =>
        \A p \in 1..8 :
            (TimeFails(p) /\ \A r \in 1..(p - 1) : ~TimeResolves(r)) =>
                \A q \in (p + 1)..8 :
                    (/\ TimeResolves(q)
                     /\ \A r \in (p + 1)..(q - 1) : ~TimeResolves(r))
                       => call.time = TimeParsed(q)

IsClockA(tok) == tok.k \in {"colon", "dot"}
IsPeriod(tok) == tok.k = "word" /\ tok.mer \in PeriodWords

\* The time of a period word.
PeriodTime(w) ==
    CASE w = "noon" -> HHMM(12, 0)
      [] w = "midnight" -> HHMM(0, 0)
      [] w = "morning" -> HHMM(9, 0)
      [] w = "afternoon" -> HHMM(14, 0)
      [] w = "evening" -> HHMM(18, 0)

\* The clock time a token denotes.
ClockTime(tok) == HHMM(Normalized(tok.h, Lower(tok.mer)), tok.m)

\* C18: the time patterns are tried in the order (1) H:MM with optional
\* am/pm, or H.MM, (2) the bare hour with am/pm, (3) a period word, and
\* the first match wins: a text with an H:MM or H.MM time resolves to such
\* a time, whatever bare-hour time or period word it also has, and a text
\* with no clock time and a period word to a period.  (A text whose only
\* clock times are bare hours is the case of C10.)
C18_TimePatternOrder ==
    Extracted =>
        /\ (\E i \in 1..Len(arg.text) : IsClockA(arg.text[i])) =>
              \E i \in 1..Len(arg.text) :
                  IsClockA(arg.text[i]) /\ call.time = ClockTime(arg.text[i])
        /\ (/\ \A i \in 1..Len(arg.text) :
                  arg.text[i].k \notin {"colon", "dot", "bare", "spaced"}
            /\ \E i \in 1..Len(arg.text) : IsPeriod(arg.text[i])) =>
              \E i \in 1..Len(arg.text) :
                  IsPeriod(arg.text[i])
                  /\ call.time = PeriodTime(arg.text[i].mer)

\* The text has a number followed by a unit of units; the number of the
\* leftmost such amount.
HasAmount(units) ==
    \E i \in 1..Len(TextChars) : IsAmount(TextChars, i, units)
AmountOf(units) ==
    TextChars[Leftmost({i \in 1..Len(TextChars) :
                            IsAmount(TextChars, i, units)})].n
HasFraction(word) ==
    \E i \in 1..Len(TextChars) : IsFraction(TextChars, i, word)

\* C19: the duration is that of the first match in the order "<N> hours"
\* or "<N> hrs" (N times 60), "<N> mins" or "<N> minutes" (N), "half hour"
\* (30), "quarter hour" (15): a text with an hours or hrs amount and a
\* minutes amount resolves to the hours amount times 60, and a text with
\* no duration expression leaves the duration unresolved.
C19_DurationOrder ==
    Extracted =>
        call.duration =
            IF HasAmount(HourWords \cup HrWords)
            THEN Some(AmountOf(HourWords \cup HrWords) * 60)
            ELSE IF HasAmount(MinWords) THEN Some(AmountOf(MinWords))
            ELSE IF HasFraction("half") THEN Some(30)
            ELSE IF HasFraction("quarter") THEN Some(15)
            ELSE None

\* C20: the combined datetime is set exactly when both the date and the
\* time resolved, and is then that date at that time; it is never set
\* while the date or the time is unset.
C20_CombinedIffDateAndTime ==
    Extracted =>
        /\ call.parsed_datetime # None
              <=> (call.date # None /\ call.time # None)
        /\ call.parsed_datetime # None =>
              call.parsed_datetime
                 = Some(Combine(call.date[1], HMMinutes(call.time)))

---------------------------------------------------------------------------
(* extract_datetime_info: claims C21 to C23 *)

\* C21: a resolved time is a 24-hour clock time, the hour in 0..23 and the
\* minute in 0..59, for every matched input, hours above 12 written with
\* pm and digit pairs such as 25:99 included.
C21_TimeIsClockTime ==
    (Extracted /\ call.time # None) =>
        /\ call.time[1] \in 0..23
        /\ call.time[2] \in 0..59

\* The text has no expression of duration; no time pattern resolves; no
\* date pattern resolves.
NoDurationExpression ==
    LET chars == TextChars
    IN \A i \in 1..Len(chars) :
          /\ ~IsAmount(chars, i, HourWords \cup MinWords \cup HrWords)
          /\ ~IsFraction(chars, i, "half")
          /\ ~IsFraction(chars, i, "quarter")
NoTimeResolves == \A p \in 1..8 : ~TimeResolves(p)
NoDateResolves ==
    LET chars == TextChars
    IN \A p \in 1..10 : ~DateResolves(chars, p)

\* C22: extract_datetime_info returns for every text a result with all
\* its fields, each resolved or None, and a field whose expression is
\* absent or cannot be parsed is None.
C22_CompleteResultNeverRaises ==
    Extracted =>
        /\ DOMAIN call = {"op", "date", "time", "duration", "date_str",
                          "time_str", "parsed_datetime"}
        /\ call.date = None \/ Len(call.date) = 1
        /\ call.time = None \/ Len(call.time) = 2
        /\ call.duration = None
              \/ (Len(call.duration) = 1 /\ call.duration[1] >= 0)
        /\ call.parsed_datetime = None \/ Len(call.parsed_datetime) = 1
        /\ NoDateResolves => (call.date = None /\ call.date_str = None)
        /\ NoTimeResolves => (call.time = None /\ call.time_str = None)
        /\ NoDurationExpression => call.duration = None
        /\ (call.date = None \/ call.time = None)
              => call.parsed_datetime = None

\* "minutes february 30": a duration and a date that cannot be parsed,
\* and no time.
C22_Witness ==
    /\ Extracted
    /\ arg.text = <<Token("word", 0, 0, "minutes"),
                    Token("monthday", 30, 0, "february")>>
    /\ call.date = None /\ call.time = None /\ call.duration = None
    /\ call.parsed_datetime = None

\* The month and the day a call of a month-name parser names.
NamedMonth == month_map(arg.month_name)
ThisYear == DateOf(NowYear, NamedMonth, arg.day)
NextYear == DateOf(NowYear + 1, NamedMonth, arg.day)

\* C23: a month-name date is in the current year unless that month and
\* day is strictly before today, and then in the next year; the month and
\* day of today resolves to today; a resolved month-name date is never
\* earlier than today.
C23_MonthNameRollsForward ==
    (call.op \in {"parse_month_day", "parse_day_month"}
     /\ call.ret # None) =>
        /\ NamedMonth # 0 /\ ThisYear # None
        /\ call.ret[1] >= Today
        /\ ThisYear[1] >= Today => call.ret = ThisYear
        /\ ThisYear[1] < Today => call.ret = NextYear
        /\ (NamedMonth = NowMonth /\ arg.day = NowDay)
              => call.ret = Some(Today)

\* The month and day of today, and one before today.
C23_Witness ==
    /\ call.op = "parse_month_day"
    /\ arg.month_name = "march" /\ arg.day = NowDay
    /\ call.ret = Some(Today)

C23_WitnessRolled ==
    /\ call.op = "parse_day_month"
    /\ arg.month_name = "mar" /\ arg.day = 9
    /\ call.ret = Some(Today + 364)
---------------------------------------------------------------------------
(* The slot allocator called again on the same list *)

\* Most calls a caller makes with the list it holds.
MaxCalls == 2

ExistingEventsConsumed(existing_events) == <<>>

\* The caller's list after a call of get_time_slot_suggestions: "for event
\* in existing_events" reads event['start'] and event['end'] (str.replace
\* builds a new string) and assigns to neither the list nor an entry.
ExistingEventsAfter(existing_events) == existing_events

\* The events of the list a caller holds: today 09:00-10:00, today
\* 10:00-13:00, and one whose start fromisoformat rejects.
HeldEvents ==
    {[start |-> Combine(Today, 540), end |-> Combine(Today, 600)],
     [start |-> Combine(Today, 600), end |-> Combine(Today, 780)],
     [start |-> Malformed, end |-> Combine(Today, 600)]}

\* A caller with its list, date and duration, the number of calls it has
\* made with them and what the first of these calls returned.
ReuseArgs ==
    [fn : {"reuse"},
     existing_events : SeqsUpTo(HeldEvents, MaxSupplied),
     preferred_date : {Malformed, Today},
     duration_minutes : {60, 120},
     calls : {0},
     first : {None}]

\* The caller calls get_time_slot_suggestions with the list it holds.
SuggestOwn ==
    /\ arg.fn = "reuse"
    /\ arg.calls < MaxCalls
    /\ LET r == get_time_slot_suggestions(arg.existing_events,
                                          arg.preferred_date,
                                          arg.duration_minutes)
       IN /\ call' = [op |-> "get_time_slot_suggestions", caller |-> "own",
                      after |-> call.op] @@ r
          /\ arg' = [arg EXCEPT
                        !.existing_events = ExistingEventsAfter(@),
                        !.calls = @ + 1,
                        !.first = IF @ = None THEN Some(r.ret) ELSE @]
    /\ UNCHANGED <<service, events>>

\* Another caller calls get_time_slot_suggestions with a list of its own.
SuggestOther ==
    \E event \in HeldEvents, duration_minutes \in {30, 60} :
        /\ call' = [op |-> "get_time_slot_suggestions", caller |-> "other",
                    after |-> call.op]
                   @@ get_time_slot_suggestions(<<event>>, Today,
                                                duration_minutes)
        /\ UNCHANGED <<service, events, arg>>

\* The calendar check_availability sweeps between the calls: today
\* 09:00-10:00 and 11:30-13:00.
InitReuse ==
    /\ service = TRUE
    /\ events = CalendarOf({<<Combine(Today, 540), Combine(Today, 600)>>,
                            <<Combine(Today, 690), Combine(Today, 780)>>})
    /\ arg \in ReuseArgs
    /\ call = NoCall

NextReuse == SuggestOwn \/ SuggestOther \/ CheckAvailability

SpecReuse == InitReuse /\ [][NextReuse]_vars

---------------------------------------------------------------------------
(* The slot allocator: claim C24 *)

---------------------------------------------------------------------------
(* CalendarManager.delete_event and cancel_appointment *)

\* The characters of the summaries and of the names asked for.
Characters(s) ==
    CASE s = "sync" -> <<"s", "y", "n", "c">>
      [] s = "Sync" -> <<"S", "y", "n", "c">>
      [] s = "SYNC" -> <<"S", "Y", "N", "C">>
      [] s = "sync up" -> <<"s", "y", "n", "c", " ", "u", "p">>
      [] s = "external" -> <<"e", "x", "t", "e", "r", "n", "a", "l">>
      [] s = "EXT" -> <<"E", "X", "T">>
      [] s = "lunch" -> <<"l", "u", "n", "c", "h">>
      [] s = "" -> <<>>

\* str.lower() on one character.
LowerChar(c) ==
    CASE c = "S" -> "s"
      [] c = "Y" -> "y"
      [] c = "N" -> "n"
      [] c = "C" -> "c"
      [] c = "E" -> "e"
      [] c = "X" -> "x"
      [] c = "T" -> "t"
      [] OTHER -> c

\* str.lower()
StrLower(chars) == [i \in DOMAIN chars |-> LowerChar(chars[i])]

\* "needle in hay" on strings: needle is a substring of hay.
Contains(needle, hay) ==
    \E i \in 0..(Len(hay) - Len(needle)) :
        SubSeq(hay, i + 1, i + Len(needle)) = needle

\* "appointment_summary.lower() in event['summary'].lower()"
MatchesSummary(appointment_summary, event) ==
    Contains(StrLower(Characters(appointment_summary)),
             StrLower(Characters(event.summary)))

\* CalendarManager.delete_event: the calendar after the call and the value
\* returned; False when not connected or when the delete raises.
delete_event(svc, cal, event_id, apiOk) ==
    IF ~svc \/ ~apiOk
    THEN [cal |-> cal, ok |-> FALSE]
    ELSE [cal |-> {e \in cal : e.id # event_id}, ok |-> TRUE]

RECURSIVE MatchingFrom(_, _, _)
\* "[event for event in events if ...]" from event i on.
MatchingFrom(appointment_summary, evs, i) ==
    IF i > Len(evs) THEN <<>>
    ELSE (IF MatchesSummary(appointment_summary, evs[i]) THEN <<evs[i]>>
          ELSE <<>>)
         \o MatchingFrom(appointment_summary, evs, i + 1)

MatchingEvents(appointment_summary, evs) ==
    MatchingFrom(appointment_summary, evs, 1)

\* cancel_appointment: the calendar after the call and the record of the
\* call.  readOk, deleteOk: whether the calendar read and the delete go
\* through.  The day runs from 00:00:00 to 23:59:59; every event starts on a
\* whole minute, so starting before 23:59:59 is starting before 24:00.
cancel_appointment(svc, cal, appointment_summary, date_str, readOk, deleteOk) ==
    LET base == [op |-> "cancel_appointment",
                 appointment_summary |-> appointment_summary,
                 date_str |-> date_str, before |-> cal, lookup |-> "none",
                 matching_events |-> <<>>, deleted |-> None,
                 ret |-> "not_connected"]
    IN
    IF ~svc THEN [cal |-> cal, call |-> base]
    ELSE IF date_str = Malformed
    THEN [cal |-> cal, call |-> [base EXCEPT !.ret = "invalid_date"]]
    ELSE
    LET start_time == Combine(date_str, 0)
        end_time == Combine(date_str, MinutesPerDay)
        evs == get_events(svc, cal, start_time, end_time, readOk)
        matching_events == MatchingEvents(appointment_summary, evs)
        looked == [base EXCEPT !.lookup = IF readOk THEN "ok" ELSE "failed",
                               !.matching_events = matching_events]
    IN
    IF matching_events = <<>>
    THEN [cal |-> cal, call |-> [looked EXCEPT !.ret = "not_found"]]
    ELSE IF Len(matching_events) > 1
    THEN [cal |-> cal, call |-> [looked EXCEPT !.ret = "multiple"]]
    ELSE
    LET event_to_cancel == matching_events[1]
        success == delete_event(svc, cal, event_to_cancel.id, deleteOk)
    IN
    IF success.ok
    THEN [cal |-> success.cal,
          call |-> [looked EXCEPT !.deleted = Some(event_to_cancel),
                                  !.ret = "cancelled"]]
    ELSE [cal |-> cal, call |-> [looked EXCEPT !.ret = "delete_failed"]]

---------------------------------------------------------------------------
(* book_appointment and cancel_appointment one at a time *)

\* Whether two events overlap: the half-open test.
Overlap(e, f) == e.start < f.end /\ f.start < e.end

NoOverlap(cal) == \A e, f \in cal : e.id # f.id => ~Overlap(e, f)

\* The interval a cancel that went through has just freed, or None.
Freed ==
    IF call.op = "cancel_appointment" /\ call.ret = "cancelled"
    THEN Some(<<call.deleted[1].start, call.deleted[1].end>>)
    ELSE None

\* A booking on a calendar that answers: today at 09:00 or 10:00, for 60 or
\* 90 minutes.  The record keeps the interval the call before it freed.
BookInTurn ==
    \E summary \in {"Sync", "sync up"}, start_time_str \in {540, 600},
       duration_minutes \in Durations :
        /\ Cardinality(events) < MaxEvents
        /\ LET r == book_appointment(service, events, summary, Today,
                                     start_time_str, duration_minutes,
                                     TRUE, TRUE)
           IN /\ events' = r.cal
              /\ call' = r.call @@ [freed |-> Freed]
        /\ UNCHANGED <<service, arg>>

\* A cancel on a calendar that answers.
CancelInTurn ==
    \E appointment_summary \in {"sync", "SYNC", "EXT", "lunch"},
       date_str \in {Malformed, Today} :
        /\ LET r == cancel_appointment(service, events, appointment_summary,
                                       date_str, TRUE, TRUE)
           IN /\ events' = r.cal
              /\ call' = r.call
        /\ UNCHANGED <<service, arg>>

\* A connected calendar in which no two events overlap.
InitInTurn ==
    /\ service = TRUE
    /\ \E ivs \in SUBSET Intervals(PrePoints) :
          /\ Cardinality(ivs) <= MaxPre
          /\ events = CalendarOf(ivs)
          /\ NoOverlap(events)
    /\ arg = NoArg
    /\ call = NoCall

NextInTurn == BookInTurn \/ CancelInTurn

SpecInTurn == InitInTurn /\ [][NextInTurn]_vars

---------------------------------------------------------------------------
(* book_appointment and cancel_appointment one at a time: claim C25 *)

\* C25: from a calendar without overlapping events, on a backend that
\* answers, after any bookings and cancels made one at a time no two events
\* of the calendar overlap, and a booking of the interval the cancel just
\* before it freed goes through.
C25_NoOverlapAndFreedRebooks ==
    /\ NoOverlap(events)
    /\ (/\ call.op = "book_appointment"
        /\ call.freed # None
        /\ call.freed[1] = <<ProposedStart, ProposedEnd>>)
       => /\ call.ret = "booked"
          /\ \E e \in events :
                /\ e.start = ProposedStart /\ e.end = ProposedEnd
                /\ e \notin call.before

\* C25's case: a booking of the interval freed by the cancel before it,
\* next to another event of the calendar.
C25_Witness ==
    /\ call.op = "book_appointment"
    /\ call.freed # None
    /\ call.freed[1] = <<ProposedStart, ProposedEnd>>
    /\ Cardinality(events) >= 2

\* A booking turned down for a conflict once the calendar holds bookings.
C25_WitnessConflict ==
    /\ call.op = "book_appointment"
    /\ call.ret = "conflict"
    /\ \E e \in events : e.summary = "Sync"
---------------------------------------------------------------------------
(* Two book_appointment calls running at once *)

\* The two calls in flight.
Callers == {1, 2}

\* A call of book_appointment that has parsed its arguments and stands
\* before its conflict lookup: today at 09:00, 09:30 or 10:00, for 60 or 90
\* minutes.
CallsAtLookup ==
    [pc : {"lookup"}, summary : Summaries,
     start_datetime : {Combine(Today, m) : m \in {540, 570, 600}},
     duration_minutes : Durations, ret : {"none"}]

\* The end of the interval a call proposes.
EndDatetime(c) == c.start_datetime + c.duration_minutes

\* "existing_events = calendar_manager.get_events(start_datetime,
\* end_datetime)" and the test on it, by one of the calls: with an event
\* found the call returns the conflict message, else it goes on to create.
RaceLookup ==
    \E p \in Callers :
        /\ call.op = "concurrent"
        /\ call.calls[p].pc = "lookup"
        /\ LET c == call.calls[p]
               existing_events ==
                   get_events(service, events, c.start_datetime,
                              EndDatetime(c), TRUE)
           IN call' = [call EXCEPT !.calls[p] =
                          IF existing_events # <<>>
                          THEN [c EXCEPT !.pc = "done", !.ret = "conflict"]
                          ELSE [c EXCEPT !.pc = "create"]]
        /\ UNCHANGED <<service, events, arg>>

\* "created_event = calendar_manager.create_event(...)" and the return, by
\* one of the calls.
RaceCreate ==
    \E p \in Callers :
        /\ call.op = "concurrent"
        /\ call.calls[p].pc = "create"
        /\ LET c == call.calls[p]
               created_event ==
                   create_event(service, events, c.summary, c.start_datetime,
                                EndDatetime(c), TRUE)
           IN /\ events' = created_event.cal
              /\ call' = [call EXCEPT !.calls[p] =
                             [c EXCEPT !.pc = "done",
                                       !.ret = IF created_event.made
                                               THEN "booked"
                                               ELSE "create_failed"]]
        /\ UNCHANGED <<service, arg>>

\* A connected calendar without overlapping events and two calls about to
\* look for conflicts.
InitRace ==
    /\ service = TRUE
    /\ \E ivs \in SUBSET Intervals(PrePoints) :
          /\ Cardinality(ivs) <= MaxPre
          /\ events = CalendarOf(ivs)
          /\ NoOverlap(events)
    /\ arg = NoArg
    /\ call \in [op : {"concurrent"}, calls : [Callers -> CallsAtLookup]]

NextRace == RaceLookup \/ RaceCreate

SpecRace == InitRace /\ [][NextRace]_vars

---------------------------------------------------------------------------
(* Two book_appointment calls running at once: claim C26 *)

\* Whether the two calls in flight propose overlapping intervals.
ProposalsOverlap ==
    /\ call.calls[1].start_datetime < EndDatetime(call.calls[2])
    /\ call.calls[2].start_datetime < EndDatetime(call.calls[1])

\* C26: when two book_appointment calls for overlapping intervals run at
\* once, their lookups and creations interleaved in any order, at most one
\* of them creates an event.
C26_AtMostOneCreates ==
    (call.op = "concurrent" /\ ProposalsOverlap) =>
        ~(call.calls[1].ret = "booked" /\ call.calls[2].ret = "booked")
---------------------------------------------------------------------------
(* cancel_appointment on a calendar that may fail *)

\* The events of the calendars cancel_appointment is tried on: "Sync" today
\* 09:00-10:00, "sync up" today 10:00-11:30, "lunch" today 12:00-13:00 and
\* "Sync" yesterday 09:00-10:00.
CancelEvents ==
    {[id |-> 0, summary |-> "Sync",
      start |-> Combine(Today, 540), end |-> Combine(Today, 600)],
     [id |-> 1, summary |-> "sync up",
      start |-> Combine(Today, 600), end |-> Combine(Today, 690)],
     [id |-> 2, summary |-> "lunch",
      start |-> Combine(Today, 720), end |-> Combine(Today, 780)],
     [id |-> 3, summary |-> "Sync",
      start |-> Combine(0, 540), end |-> Combine(0, 600)]}

\* The names asked for: in lower case, in upper case, one no event has, and
\* the empty string, which every summary contains.
CancelSummaries == {"sync", "SYNC", "lunch", "EXT", ""}

CancelAppointment ==
    \E appointment_summary \in CancelSummaries, date_str \in DateStrs,
       readOk \in BOOLEAN, deleteOk \in BOOLEAN :
        /\ LET r == cancel_appointment(service, events, appointment_summary,
                                       date_str, readOk, deleteOk)
           IN /\ events' = r.cal
              /\ call' = r.call
        /\ UNCHANGED <<service, arg>>

InitCancel ==
    /\ service \in BOOLEAN
    /\ events \in SUBSET CancelEvents
    /\ Cardinality(events) <= MaxEvents
    /\ arg = NoArg
    /\ call = NoCall

NextCancel == CancelAppointment

SpecCancel == InitCancel /\ [][NextCancel]_vars

---------------------------------------------------------------------------
(* cancel_appointment: claim C27 *)

\* The events of the calendar, as it was when the cancel was called, that
\* lie on the given date and whose summary contains the one asked for.
MatchesOnDate ==
    {e \in call.before :
        /\ e.end > Combine(call.date_str, 0)
        /\ e.start < Combine(call.date_str, MinutesPerDay)
        /\ MatchesSummary(call.appointment_summary, e)}

\* C27: on a connected calendar cancel_appointment deletes an event only
\* when exactly one event on the given date has a summary containing the
\* one asked for, without regard to case, and then it deletes that event and
\* no other (or reports that the delete itself failed); with no match, with
\* more than one or with a malformed date it deletes nothing and returns an
\* error message.
C27_CancelDeletesTheOneMatch ==
    (call.op = "cancel_appointment" /\ service) =>
        IF call.date_str # Malformed /\ Cardinality(MatchesOnDate) = 1
        THEN \/ call.ret = "cancelled" /\ events = call.before \ MatchesOnDate
             \/ call.ret = "delete_failed" /\ events = call.before
        ELSE /\ events = call.before
             /\ call.ret \in {"not_found", "multiple", "invalid_date"}
---------------------------------------------------------------------------
(* The tools and the manager's methods, connected or not *)

\* The requests a method of CalendarManager sends to the calendar: none
\* after "if not self.service: return ...", else the one named.
ApiRequests(svc, request) == IF ~svc THEN <<>> ELSE <<request>>

\* list_upcoming_appointments: the record of the call.  now: the minute of
\* today the call is made at; readOk: whether the calendar read goes through.
list_upcoming_appointments(svc, cal, days_ahead, now, readOk) ==
    LET base == [op |-> "list_upcoming_appointments",
                 days_ahead |-> days_ahead, lookup |-> "none",
                 appointments |-> <<>>, ret |-> "not_connected"]
    IN
    IF ~svc THEN base
    ELSE
    LET start_time == Combine(Today, now)
        end_time == start_time + days_ahead * MinutesPerDay
        evs == get_events(svc, cal, start_time, end_time, readOk)
        looked == [base EXCEPT !.lookup = IF readOk THEN "ok" ELSE "failed"]
    IN
    IF evs = <<>> THEN [looked EXCEPT !.ret = "none_scheduled"]
    ELSE [looked EXCEPT
             !.appointments = [i \in 1..Len(evs) |->
                                  [summary |-> evs[i].summary,
                                   start |-> evs[i].start]],
             !.ret = "listed"]

\* list_upcoming_appointments for the next day or the next week, called at
\* 00:00, 09:30 or 12:00.
ListUpcomingAppointments ==
    \E days_ahead \in {1, 7}, now \in {0, 570, 720}, readOk \in BOOLEAN :
        /\ call' = list_upcoming_appointments(service, events, days_ahead,
                                              now, readOk)
        /\ UNCHANGED <<service, events, arg>>

\* book_appointment of "Sync" for 60 minutes today, at 09:00 or at a time
\* that does not parse.
BookToday ==
    \E start_time_str \in {Malformed, 540}, readOk \in BOOLEAN,
       writeOk \in BOOLEAN :
        /\ Cardinality(events) < MaxEvents
        /\ LET r == book_appointment(service, events, "Sync", Today,
                                     start_time_str, 60, readOk, writeOk)
           IN /\ events' = r.cal
              /\ call' = r.call
        /\ UNCHANGED <<service, arg>>

\* The time ranges the methods are called with: today, and today 09:00 to
\* 10:00.
MethodRanges ==
    {<<Combine(Today, 0), Combine(Today, MinutesPerDay)>>,
     <<Combine(Today, 540), Combine(Today, 600)>>}

\* calendar_manager.get_events called directly.
GetEvents ==
    \E range \in MethodRanges, apiOk \in BOOLEAN :
        /\ call' = [op |-> "get_events",
                    requests |-> ApiRequests(service, "list"),
                    ret |-> get_events(service, events, range[1], range[2],
                                       apiOk)]
        /\ UNCHANGED <<service, events, arg>>

\* calendar_manager.create_event called directly.
CreateEvent ==
    \E range \in MethodRanges, apiOk \in BOOLEAN :
        /\ Cardinality(events) < MaxEvents
        /\ LET r == create_event(service, events, "Sync", range[1], range[2],
                                 apiOk)
           IN /\ events' = r.cal
              /\ call' = [op |-> "create_event",
                          requests |-> ApiRequests(service, "insert"),
                          ret |-> r.made]
        /\ UNCHANGED <<service, arg>>

\* calendar_manager.delete_event called directly with the id of an event of
\* the calendar.
DeleteEvent ==
    \E e \in events, apiOk \in BOOLEAN :
        /\ LET r == delete_event(service, events, e.id, apiOk)
           IN /\ events' = r.cal
              /\ call' = [op |-> "delete_event",
                          requests |-> ApiRequests(service, "delete"),
                          ret |-> r.ok]
        /\ UNCHANGED <<service, arg>>

InitTools ==
    /\ service \in BOOLEAN
    /\ events \in SUBSET {e \in CancelEvents : e.summary # "Sync"}
    /\ Cardinality(events) <= MaxPre
    /\ arg = NoArg
    /\ call = NoCall

NextTools ==
    \/ CheckAvailability
    \/ BookToday
    \/ ListUpcomingAppointments
    \/ CancelAppointment
    \/ GetEvents
    \/ CreateEvent
    \/ DeleteEvent

SpecTools == InitTools /\ [][NextTools]_vars

---------------------------------------------------------------------------
(* The tools and the manager's methods: claim C28 *)

\* C28: while calendar_manager.service is None, each of check_availability,
\* book_appointment, list_upcoming_appointments and cancel_appointment
\* returns the not-connected message and reads, creates and deletes nothing,
\* and get_events, create_event and delete_event return [], None and False
\* without a request to the calendar.
C28_NotConnectedDoesNothing ==
    [][~service =>
          /\ events' = events
          /\ call'.op \in {"check_availability", "book_appointment",
                           "list_upcoming_appointments",
                           "cancel_appointment"}
             => call'.ret = "not_connected"
          /\ call'.op = "check_availability" => call'.busy = <<>>
          /\ call'.op = "book_appointment"
             => call'.lookup = "none" /\ ~call'.created
          /\ call'.op = "list_upcoming_appointments"
             => call'.lookup = "none"
          /\ call'.op = "cancel_appointment"
             => call'.lookup = "none" /\ call'.deleted = None
          /\ call'.op = "get_events"
             => call'.ret = <<>> /\ call'.requests = <<>>
          /\ call'.op \in {"create_event", "delete_event"}
             => call'.ret = FALSE /\ call'.requests = <<>>]_vars

\* C28's case: not connected, a calendar that holds "lunch" today, and a
\* cancel_appointment of "lunch" for today that leaves it there.
C28_Witness ==
    /\ ~service
    /\ call.op = "cancel_appointment"
    /\ call.appointment_summary = "lunch"
    /\ call.date_str = Today
    /\ \E e \in events : e.summary = "lunch" /\ e.start = Combine(Today, 720)

\* Not connected, and get_events called over a range that holds an event.
C28_WitnessGetEvents ==
    /\ ~service
    /\ call.op = "get_events"
    /\ \E e \in events : e.start = Combine(Today, 720)

\* Connected, the same cancel deletes the event.
C28_WitnessConnected ==
    /\ service
    /\ call.op = "cancel_appointment"
    /\ call.ret = "cancelled"
---------------------------------------------------------------------------
(* TailorTalkAgent.process_message *)

\* Most calls of process_message on one agent.
MaxTurns == 6

\* The agent variants: agent.py, agent_demo.py and agent_simple.py.
Variants == {"agent", "agent_demo", "agent_simple"}

\* "self.conversation_history[-10:]": the last ten entries.
LastTen(history) ==
    SubSeq(history, Max(1, Len(history) - 9), Len(history))

\* What an invocation of the language model does: it raises, or it returns
\* a message whose content is a string ("text") or a list of content blocks
\* ("blocks"), the first invocation possibly with tool calls.
FirstOutcomes == {"raise", "text", "blocks", "tool_calls"}
FinalOutcomes == {"raise", "text", "blocks"}

\* analysis['intent'] as analyze_request of agent.py returns it: 'error' only
\* when extract_datetime_info, _determine_intent or
\* _extract_appointment_details raises, which none does on a string.
Intents == {"book", "check", "cancel", "list", "general"}

\* Whether format_response is reached with something re.sub refuses:
\* agent.py hands it the content as it is, agent_demo.py and agent_simple.py
\* hand it str(content).
FormatRaises(variant, content) == variant = "agent" /\ content = "blocks"

\* process_message: the history after the call, the history entries in each
\* list of messages sent to the model, and what is returned.  intent: what
\* analyze_request found (agent.py); first, final: what the invocations of
\* the model do.
process_message(variant, demo_mode, conversation_history, intent, first, final) ==
    LET asked == Append(conversation_history, "user")
        failed == [history |-> Append(asked, "assistant"),
                   sent |-> <<LastTen(asked)>>, ret |-> "error_message"]
        Answered(content, sent) ==
            LET appended == Append(asked, "assistant")
            IN IF FormatRaises(variant, content)
               THEN [history |-> Append(appended, "assistant"),
                     sent |-> sent, ret |-> "error_message"]
               ELSE [history |-> appended, sent |-> sent,
                     ret |-> "response"]
    IN
    IF variant = "agent_demo" /\ demo_mode
    THEN Answered("text", <<>>)
    ELSE IF variant = "agent" /\ intent = "error"
    THEN [history |-> asked, sent |-> <<>>, ret |-> "analysis_error"]
    ELSE IF first = "raise" THEN failed
    ELSE IF first = "tool_calls"
    THEN IF final = "raise"
         THEN [failed EXCEPT !.sent = <<LastTen(asked), LastTen(asked)>>]
         ELSE Answered(final, <<LastTen(asked), LastTen(asked)>>)
    ELSE Answered(first, <<LastTen(asked)>>)

\* An agent of one of the variants, as constructed: agent_demo.py is in demo
\* mode when no model could be initialised.
NewAgents ==
    {a \in [fn : {"agent"}, variant : Variants, demo_mode : BOOLEAN,
            conversation_history : {<<>>}, calls : {0}] :
        a.demo_mode => a.variant = "agent_demo"}

ProcessMessage ==
    \E intent \in Intents, first \in FirstOutcomes, final \in FinalOutcomes :
        /\ arg.fn = "agent"
        /\ arg.calls < MaxTurns
        /\ LET r == process_message(arg.variant, arg.demo_mode,
                                    arg.conversation_history, intent, first,
                                    final)
           IN /\ arg' = [arg EXCEPT !.conversation_history = r.history,
                                    !.calls = @ + 1]
              /\ call' = [op |-> "process_message", sent |-> r.sent,
                          ret |-> r.ret]
        /\ UNCHANGED <<service, events>>

InitAgent ==
    /\ service = FALSE
    /\ events = {}
    /\ arg \in NewAgents
    /\ call = NoCall

NextAgent == ProcessMessage

SpecAgent == InitAgent /\ [][NextAgent]_vars

---------------------------------------------------------------------------
(* TailorTalkAgent.process_message: claim C29 *)

\* C29: in every variant, after n calls of process_message the history
\* holds 2n entries, user and assistant in turn, and no list of messages
\* sent to the model holds more than ten history entries.
C29_HistoryAlternates ==
    arg.fn = "agent" =>
        /\ Len(arg.conversation_history) = 2 * arg.calls
        /\ \A i \in 1..Len(arg.conversation_history) :
              arg.conversation_history[i] =
                 IF i % 2 = 1 THEN "user" ELSE "assistant"
        /\ call.op = "process_message" =>
              \A i \in 1..Len(call.sent) : Len(call.sent[i]) <= 10
---------------------------------------------------------------------------
(* get_time_slot_suggestions: claim C30 *)

\* C30: every time returned by the computed path (a date that parses, events
\* that parse) names a slot [h:00, h:00 + duration_minutes) that lies within
\* business hours, 09:00 to 17:00, whatever the duration.
C30_SlotsWithinBusinessHours ==
    (/\ call.op = "get_time_slot_suggestions"
     /\ arg.fn = "get_time_slot_suggestions"
     /\ arg.preferred_date # Malformed
     /\ AllParse(arg.existing_events))
    => \A i \in 1..Len(call.ret) :
          /\ call.ret[i][2] = 0
          /\ business_start * 60 <= HMMinutes(call.ret[i])
          /\ HMMinutes(call.ret[i]) + arg.duration_minutes
                <= business_end * 60

=============================================================================
